---------------------------- MODULE Spec2Model ----------------------------
(***************************************************************************)
(* Model of the session-trace indexer: Indexer (src/src/indexer.ts) on top *)
(* of ChatDatabase (src/src/database.ts).                                  *)
(*                                                                         *)
(* Execution model.  The program is single-threaded JavaScript: one step   *)
(* of the model is one turn of the event loop, i.e. one call from outside  *)
(* or one I/O completion callback, together with every promise reaction    *)
(* (microtask) it triggers, run to completion in FIFO order.  A database   *)
(* statement of the indexer takes effect in the step of its completion     *)
(* callback; the pc of a pass names the operation it is awaiting.          *)
(***************************************************************************)
EXTENDS Integers, Sequences, FiniteSets, Bags, TLC

(***************************************************************************)
(* Bounds of the model                                                     *)
(***************************************************************************)
MaxCalls == 2        \* reindex()/fullReindex() invocations in one behaviour
MaxReaders == 2      \* concurrent read operations
MaxGates == 3        \* barrier promises created by free beginIndexing calls
MaxMtime == 3        \* modification times are 1..MaxMtime
MaxTurns == 2        \* requests per session log
MaxDiskOps == 2      \* changes made to the disk by the environment
MaxLogLines == 2     \* lines of an operation log after line 0
MaxIndex == 6        \* truncation indices are 0..MaxIndex
ArrayLen == 5        \* length of the requests array of a snapshot
MaxQueryLen == 5     \* characters of a search query
MaxLexemes == 4      \* lexemes of an ad-hoc statement
MaxTableOps == 3     \* storage operations on an open database
MaxOpens == 2        \* times the database file is opened
MaxVersion == 3      \* schema versions that wrote a database file
MaxParts == 2        \* response parts of a request
MaxStale == 10       \* stale files of a pass
MaxNotes == 2        \* annotations of a request
MaxResets == 1       \* calls of refresh, setSortBy and setFilter
MaxLoads == 2        \* loads of the recent view
MaxSummaries == 4    \* sessions listed for the recent view
MaxChanges == 3      \* changes of the value of the quick pick

(***************************************************************************)
(* Program constants                                                       *)
(***************************************************************************)
BATCH_SIZE == 8

Files == {"fA", "fB"}
SessionIds == {"s1", "s2"}
Calls == 1..MaxCalls
Readers == 1..MaxReaders

Min(a, b) == IF a < b THEN a ELSE b

(***************************************************************************)
(* The file system.  A file is a session log: its modification time, and   *)
(* what replaying it yields (parses: whether it yields a session at all,   *)
(* sessionId, nreq: the number of requests, -1 when the replayed state has *)
(* no requests field; rev identifies the content).                         *)
(***************************************************************************)
NoFile == [exists |-> FALSE, mtime |-> 0, parses |-> FALSE, sessionId |-> "s1", nreq |-> 0, rev |-> 0]

FileOf(m, ok, s, n, v) ==
  [exists |-> TRUE, mtime |-> m, parses |-> ok, sessionId |-> s, nreq |-> n, rev |-> v]

discoverSessionFiles(dsk) == {f \in Files : dsk[f].exists}

\* A parsed entry of a batch; ok = FALSE is the null the batch keeps for a
\* file that failed to parse.
NullEntry == [ok |-> FALSE, filePath |-> "fA", mtime |-> 0, sessionId |-> "s1", nreq |-> 0, rev |-> 0]

\* The parser handing back the modification time the file has when parsed.
parseSessionFileRestat(dsk, item) ==
  LET f == dsk[item.filePath] IN
  IF f.exists /\ f.parses
  THEN [ok |-> TRUE, filePath |-> item.filePath, mtime |-> f.mtime,
        sessionId |-> f.sessionId, nreq |-> f.nreq, rev |-> f.rev]
  ELSE NullEntry

parseSessionFile(dsk, item) ==
  LET f == dsk[item.filePath] IN
  IF f.exists /\ f.parses
  THEN [ok |-> TRUE, filePath |-> item.filePath, mtime |-> item.mtime,
        sessionId |-> f.sessionId, nreq |-> f.nreq, rev |-> f.rev]
  ELSE NullEntry

(***************************************************************************)
(* The database: the state of the one read-write connection.              *)
(***************************************************************************)
EmptyDb == [tables |-> TRUE, sessions |-> {}, turns |-> {}]

SessionRow(s, p, m, n) == [session_id |-> s, file_path |-> p, file_mtime |-> m, request_count |-> n]
TurnRowOf(s, i, v) == [session_id |-> s, turn_index |-> i, rev |-> v]

dropAllTables(d) == [tables |-> FALSE, sessions |-> {}, turns |-> {}]

ensureSchema(d) == [d EXCEPT !.tables = TRUE]

upsertSession(d, e) ==
  [d EXCEPT !.sessions = {r \in @ : r.session_id # e.sessionId}
       \cup {SessionRow(e.sessionId, e.filePath, e.mtime, IF e.nreq < 0 THEN 0 ELSE e.nreq)}]

\* ON DELETE CASCADE: the turns of a deleted session go with it.
deleteSessions(d, ids) ==
  [d EXCEPT !.sessions = {r \in @ : r.session_id \notin ids},
            !.turns = {t \in @ : t.session_id \notin ids}]

\* The rows of the path are left alone.
deleteSessionsByFilePathNone(d, filePath, exceptSessionId) == d

deleteSessionsByFilePath(d, filePath, exceptSessionId) ==
  deleteSessions(d, {r.session_id : r \in {x \in d.sessions :
                        x.file_path = filePath /\ x.session_id # exceptSessionId}})

deleteTurnsForSession(d, sid) ==
  [d EXCEPT !.turns = {t \in @ : t.session_id # sid}]

upsertTurn(d, sid, i, v) ==
  [d EXCEPT !.turns = {t \in @ : ~(t.session_id = sid /\ t.turn_index = i)}
                        \cup {TurnRowOf(sid, i, v)}]

\* filePath -> stored mtime; 0 stands for "no entry" (undefined).
getAllSessionMtimes(d) ==
  [f \in Files |->
     LET rows == {r \in d.sessions : r.file_path = f} IN
     IF rows = {} THEN 0 ELSE (CHOOSE r \in rows : TRUE).file_mtime]

\* The (filePath, sessionId) pairs of the index.
getAllSessionPaths(d) == {<<r.file_path, r.session_id>> : r \in d.sessions}

getSessionTurns(d, sid) == {t \in d.turns : t.session_id = sid}

(***************************************************************************)
(* The indexing barrier.  Promises are numbered in creation order; 0 is    *)
(* null.  resolved[g] counts the calls of promise g's resolve function.    *)
(***************************************************************************)
NoGate == [indexingBarrier |-> 0, indexingBarrierResolve |-> 0, created |-> 0, resolved |-> <<>>]

\* beginIndexing without its guard: a promise is created on every call.
beginIndexingUnguarded(g) ==
  [indexingBarrier |-> g.created + 1, indexingBarrierResolve |-> g.created + 1,
   created |-> g.created + 1, resolved |-> Append(g.resolved, 0)]

\* endIndexing that drops the barrier without calling its resolver.
endIndexingUnresolved(g) ==
  IF g.indexingBarrierResolve = 0 THEN g
  ELSE [g EXCEPT !.indexingBarrierResolve = 0, !.indexingBarrier = 0]

\* database.ts lines 45-50.
beginIndexing(g) ==
  IF g.indexingBarrier # 0 THEN g
  ELSE [indexingBarrier |-> g.created + 1, indexingBarrierResolve |-> g.created + 1,
        created |-> g.created + 1, resolved |-> Append(g.resolved, 0)]

\* database.ts lines 52-57.
endIndexing(g) ==
  IF g.indexingBarrierResolve = 0 THEN g
  ELSE [g EXCEPT !.resolved[g.indexingBarrierResolve] = @ + 1,
                 !.indexingBarrierResolve = 0,
                 !.indexingBarrier = 0]


(***************************************************************************)
(* Read operations of ChatDatabase.  Every one starts with                 *)
(* waitForIndexing(); what follows differs in shape:                       *)
(*   single  - one query on the read-write connection                      *)
(*   getStats - three queries, each awaited before the next is issued      *)
(*   describe - getStats() plus five queries issued at once                *)
(*   queryReadOnly - opens a second, read-only connection, then one query  *)
(***************************************************************************)
SingleOps == {"listSessions", "getSessionTurns", "search", "queryAnnotations"}
ReadOps == SingleOps \cup {"getStats", "describe", "queryReadOnly"}

\* pc: idle | waiting (in waitForIndexing of the operation) | statsWait (in
\* waitForIndexing of describe's inner getStats) | q2 | q3 (getStats awaiting
\* its previous query) | roOpen (awaiting the read-only connection) | done.
\* The other fields record what the last query of the operation observed.
IdleReader ==
  [op |-> "listSessions", pc |-> "idle", awaits |-> 0, sessionId |-> "s1",
   wasBlocked |-> FALSE, rows |-> {}, committedRows |-> {}, failed |-> FALSE,
   inRebuild |-> FALSE, inBarrier |-> FALSE]

\* What the connection sees: `d` on the read-write connection (its own
\* uncommitted writes included), `dc` on any other connection.
Committed(d, open, snap) == IF open THEN snap ELSE d

\* One query of reader rd runs: on state d, while the committed state is dc,
\* the barrier is g, and `reb` tells whether a structural rebuild is under way.
RunQuery(rd, d, dc, g, reb, nextPc) ==
  [rd EXCEPT !.pc = nextPc,
             !.rows = IF rd.op = "getSessionTurns" THEN getSessionTurns(d, rd.sessionId) ELSE {},
             !.committedRows = IF rd.op = "getSessionTurns" THEN getSessionTurns(dc, rd.sessionId) ELSE {},
             !.failed = ~d.tables,
             !.inRebuild = reb,
             !.inBarrier = (g.indexingBarrier # 0)]

\* getStats after its waitForIndexing: the first COUNT query.
getStatsFirst(rd, d, dc, g, reb) == RunQuery(rd, d, dc, g, reb, "q2")

\* The code that follows `await this.waitForIndexing()` in each operation,
\* up to its next await.
AfterWait(rd, d, dc, g, reb) ==
  IF rd.op \in SingleOps THEN RunQuery(rd, d, dc, g, reb, "done")
  ELSE IF rd.op = "getStats" THEN getStatsFirst(rd, d, dc, g, reb)
  ELSE IF rd.op = "describe"
    THEN \* Promise.all([this.getStats(), this.all(..) x5]): getStats() runs to
         \* its own waitForIndexing, the five queries are issued.
         IF g.indexingBarrier # 0
         THEN [RunQuery(rd, d, dc, g, reb, "statsWait") EXCEPT !.awaits = g.indexingBarrier]
         ELSE getStatsFirst(rd, d, dc, g, reb)
  ELSE \* queryReadOnly: the statement is validated, the connection is opened
       [rd EXCEPT !.pc = "roOpen"]

\* private async waitForIndexing(): blocks on the barrier promise if there is one.
waitForIndexing(rd, d, dc, g, reb) ==
  IF g.indexingBarrier # 0
  THEN [rd EXCEPT !.pc = "waiting", !.awaits = g.indexingBarrier, !.wasBlocked = TRUE]
  ELSE AfterWait(rd, d, dc, g, reb)

\* A call of a read operation.
StartRead(op, sid, d, dc, g, reb) ==
  waitForIndexing([IdleReader EXCEPT !.op = op, !.sessionId = sid], d, dc, g, reb)

\* Promise g was resolved between barrier states g0 and g1.
ResolvedBetween(g0, g1, id) ==
  /\ id \in 1..Len(g0.resolved)
  /\ g1.resolved[id] > g0.resolved[id]

\* Resolving a promise runs the reaction of every reader awaiting it.  gw is
\* the barrier as those reactions find it, d/dc/reb the state they find.
WakeReaders(rs, g0, g1, gw, d, dc, reb) ==
  [r \in Readers |->
     IF rs[r].pc = "waiting" /\ ResolvedBetween(g0, g1, rs[r].awaits)
       THEN AfterWait([rs[r] EXCEPT !.awaits = 0], d, dc, gw, reb)
     ELSE IF rs[r].pc = "statsWait" /\ ResolvedBetween(g0, g1, rs[r].awaits)
       THEN getStatsFirst([rs[r] EXCEPT !.awaits = 0], d, dc, gw, reb)
     ELSE rs[r]]


(***************************************************************************)
(* JSON values (src/src/jsonlReader.ts).  A value is what JSON.parse       *)
(* yields: null, a number, a string, an array or an object; Undefined is   *)
(* what reading a missing property yields.  An array carries its elements  *)
(* (a hole reads as undefined) and x, the non-index properties set on it.  *)
(* Property lookup is on own properties: no key of the model names an      *)
(* inherited member, "length" or an index written as a string.             *)
(***************************************************************************)
Undefined == [t |-> "undefined"]
Null == [t |-> "null"]
Num(n) == [t |-> "number", n |-> n]
Str(s) == [t |-> "string", s |-> s]
NoProps == [p \in {} |-> Undefined]
Arr(a) == [t |-> "array", a |-> a, x |-> NoProps]
Obj(f) == [t |-> "object", f |-> f]

Max(a, b) == IF a > b THEN a ELSE b

\* typeof v === 'object' && v !== null
IsObject(v) == v.t \in {"array", "object"}

\* !v is false
Truthy(v) ==
  CASE v.t \in {"undefined", "null"} -> FALSE
    [] v.t = "number" -> v.n # 0
    [] v.t = "string" -> v.s # ""
    [] OTHER -> TRUE

\* The characters of a string; the strings the model uses as paths have at
\* most one.
Chars(s) == IF s = "" THEN <<>> ELSE <<Str(s)>>

\* The property a key (a string or a number) names.
PropertyName(key) == IF key.t = "number" THEN ToString(key.n) ELSE key.s

\* name in obj
HasProperty(obj, name) ==
  IF obj.t = "object" THEN name \in DOMAIN obj.f ELSE name \in DOMAIN obj.x

\* obj[key], obj an object or an array
GetProperty(obj, key) ==
  IF obj.t = "object"
    THEN IF PropertyName(key) \in DOMAIN obj.f THEN obj.f[PropertyName(key)] ELSE Undefined
  ELSE IF key.t = "number"
    THEN IF key.n >= 0 /\ key.n < Len(obj.a) THEN obj.a[key.n + 1] ELSE Undefined
  ELSE IF key.s \in DOMAIN obj.x THEN obj.x[key.s] ELSE Undefined

\* obj[key] = v; writing past the end of an array leaves holes.
SetProperty(obj, key, v) ==
  IF obj.t = "object"
    THEN [obj EXCEPT !.f = (PropertyName(key) :> v) @@ obj.f]
  ELSE IF key.t = "number"
    THEN IF key.n < Len(obj.a)
           THEN [obj EXCEPT !.a[key.n + 1] = v]
           ELSE [obj EXCEPT !.a = obj.a \o [j \in 1..(key.n - Len(obj.a)) |-> Undefined] \o <<v>>]
  ELSE [obj EXCEPT !.x = (key.s :> v) @@ obj.x]

\* delete obj[key]
DeleteProperty(obj, key) ==
  IF obj.t = "object"
    THEN [obj EXCEPT !.f = [p \in DOMAIN obj.f \ {PropertyName(key)} |-> obj.f[p]]]
  ELSE IF key.t = "number"
    THEN IF key.n < Len(obj.a) THEN [obj EXCEPT !.a[key.n + 1] = Undefined] ELSE obj
  ELSE [obj EXCEPT !.x = [p \in DOMAIN obj.x \ {key.s} |-> obj.x[p]]]

\* Array.prototype.splice(start[, deleteCount]): the index it starts at.
SpliceStart(a, start) == IF start < 0 THEN Max(Len(a) + start, 0) ELSE Min(start, Len(a))

\* a.splice(start): everything from start on is removed.
SpliceFrom(a, start) == SubSeq(a, 1, SpliceStart(a, start))

\* a.splice(start, 1): one element is removed, if there is one at start.
SpliceOne(a, start) ==
  SubSeq(a, 1, SpliceStart(a, start)) \o SubSeq(a, SpliceStart(a, start) + 2, Len(a))

\* obj.field of a parsed line: undefined on a primitive.
Field(obj, name) == IF IsObject(obj) THEN GetProperty(obj, Str(name)) ELSE Undefined

\* The own enumerable properties Object.assign copies from v.
OwnProperties(v) ==
  IF v.t = "object" THEN v.f
  ELSE [p \in {ToString(j - 1) : j \in 1..Len(v.a)} |->
          v.a[CHOOSE j \in 1..Len(v.a) : ToString(j - 1) = p]] @@ v.x

(***************************************************************************)
(* JsonlSessionReader: replay of an operation log                          *)
(***************************************************************************)
\* traversePath, lines 336-345
RECURSIVE traversePath(_, _)
traversePath(obj, path) ==
  IF path = <<>> THEN obj
  ELSE IF ~IsObject(obj) THEN Undefined
  ELSE traversePath(GetProperty(obj, Head(path)), Tail(path))

\* The objects of the state are mutated in place: root after the object or
\* array that path leads to has become nv.
RECURSIVE UpdateAt(_, _, _)
UpdateAt(root, path, nv) ==
  IF path = <<>> THEN nv
  ELSE SetProperty(root, Head(path),
                   UpdateAt(GetProperty(root, Head(path)), Tail(path), nv))

\* What k.length, k.slice and for-of make of the path k of an entry: the
\* keys of an array, the characters of a string.
Sliceable(k) == k.t \in {"array", "string"}
Keys(k) == IF k.t = "array" THEN k.a ELSE Chars(k.s)

\* !k || k.length === 0
NoPath(k) == ~Truthy(k) \/ (Sliceable(k) /\ Keys(k) = <<>>)

Returns(s) == [state |-> s, threw |-> FALSE]
Throws(s) == [state |-> s, threw |-> TRUE]

\* Kind 1 without the check of line 294: with an empty path k[k.length - 1]
\* is undefined and names the property "undefined" of the state.
applySetUnguarded(state, k, v) ==
  IF ~Sliceable(k) THEN Throws(state)
  ELSE LET path == SubSeq(Keys(k), 1, Len(Keys(k)) - 1)
           parent == traversePath(state, path)
           lastKey == IF Keys(k) = <<>> THEN Str("undefined") ELSE Keys(k)[Len(Keys(k))]
       IN IF IsObject(parent)
            THEN Returns(UpdateAt(state, path, SetProperty(parent, lastKey, v)))
            ELSE Returns(state)

\* kind 1, lines 291-300
applySet(state, k, v) ==
  IF NoPath(k) THEN Returns(state)
  ELSE IF ~Sliceable(k) THEN Throws(state)
  ELSE LET path == SubSeq(Keys(k), 1, Len(Keys(k)) - 1)
           parent == traversePath(state, path)
       IN IF IsObject(parent)
            THEN Returns(UpdateAt(state, path,
                                  SetProperty(parent, Keys(k)[Len(Keys(k))], v)))
            ELSE Returns(state)

\* Kind 2 with the push before the splice.
applyAppendThenTruncate(state, k, v, i) ==
  IF NoPath(k) THEN Returns(state)
  ELSE IF ~Sliceable(k) THEN Throws(state)
  ELSE LET target == traversePath(state, Keys(k))
       IN IF target.t # "array" THEN Returns(state)
          ELSE LET pushed == IF v.t = "array" THEN target.a \o v.a ELSE target.a
                   spliced == IF i.t = "number" THEN SpliceFrom(pushed, i.n) ELSE pushed
               IN Returns(UpdateAt(state, Keys(k), [target EXCEPT !.a = spliced]))

\* kind 2, lines 302-315
applyAppendOrTruncate(state, k, v, i) ==
  IF NoPath(k) THEN Returns(state)
  ELSE IF ~Sliceable(k) THEN Throws(state)
  ELSE LET target == traversePath(state, Keys(k))
       IN IF target.t # "array" THEN Returns(state)
          ELSE LET spliced == IF i.t = "number" THEN SpliceFrom(target.a, i.n) ELSE target.a
                   pushed == IF v.t = "array" THEN spliced \o v.a ELSE spliced
               IN Returns(UpdateAt(state, Keys(k), [target EXCEPT !.a = pushed]))

\* Kind 3 with delete used on arrays too: the element becomes a hole.
applyDeleteHole(state, k) ==
  IF NoPath(k) THEN Returns(state)
  ELSE IF ~Sliceable(k) THEN Throws(state)
  ELSE LET path == SubSeq(Keys(k), 1, Len(Keys(k)) - 1)
           parent == traversePath(state, path)
       IN IF IsObject(parent)
            THEN Returns(UpdateAt(state, path, DeleteProperty(parent, Keys(k)[Len(Keys(k))])))
            ELSE Returns(state)

\* kind 3, lines 317-330
applyDelete(state, k) ==
  IF NoPath(k) THEN Returns(state)
  ELSE IF ~Sliceable(k) THEN Throws(state)
  ELSE LET path == SubSeq(Keys(k), 1, Len(Keys(k)) - 1)
           parent == traversePath(state, path)
           lastKey == Keys(k)[Len(Keys(k))]
       IN IF IsObject(parent)
            THEN Returns(UpdateAt(state, path,
                   IF parent.t = "array" /\ lastKey.t = "number"
                     THEN [parent EXCEPT !.a = SpliceOne(parent.a, lastKey.n)]
                     ELSE DeleteProperty(parent, lastKey)))
            ELSE Returns(state)

\* Kind 0 without the loop that deletes the keys of the state.
applySnapshotMerge(state, v) ==
  IF IsObject(v) THEN Returns(Obj(OwnProperties(v) @@ state.f)) ELSE Returns(state)

\* kind 0, lines 279-289: every key of the state is deleted, then the
\* properties of the payload are assigned.  The state is the object that
\* unwrapOperationLog returned for line 0.
applySnapshot(state, v) ==
  IF IsObject(v) THEN Returns(Obj(OwnProperties(v))) ELSE Returns(state)

\* applyMutation, lines 275-331.  Reading entry.kind throws when the line
\* holds null.
applyMutation(state, entry) ==
  IF ~IsObject(state) THEN Returns(state)
  ELSE IF entry.t \in {"null", "undefined"} THEN Throws(state)
  ELSE IF Field(entry, "kind") = Num(0)
    THEN applySnapshot(state, Field(entry, "v"))
  ELSE IF Field(entry, "kind") = Num(1)
    THEN applySet(state, Field(entry, "k"), Field(entry, "v"))
  ELSE IF Field(entry, "kind") = Num(2)
    THEN applyAppendOrTruncate(state, Field(entry, "k"), Field(entry, "v"), Field(entry, "i"))
  ELSE IF Field(entry, "kind") = Num(3)
    THEN applyDelete(state, Field(entry, "k"))
  ELSE Returns(state)

\* A line of a file: blank, or text that JSON.parse accepts, yielding json,
\* or text it rejects.
BlankLine == [blank |-> TRUE, parses |-> FALSE, json |-> Undefined]
Garbage == [blank |-> FALSE, parses |-> FALSE, json |-> Undefined]
Text(v) == [blank |-> FALSE, parses |-> TRUE, json |-> v]

\* JSON.parse(line)
JSONparse(l) == [threw |-> ~l.parses, value |-> l.json]

\* readAllNonEmptyLines, lines 350-353
readAllNonEmptyLines(file) == SelectSeq(file.lines, LAMBDA l : ~l.blank)

\* unwrapOperationLog returning the line itself instead of its payload.
unwrapOperationLogWhole(parsed) ==
  IF ~IsObject(parsed) THEN Null
  ELSE IF HasProperty(parsed, "kind") /\ HasProperty(parsed, "v")
    THEN IF Field(parsed, "kind") = Num(0) /\ IsObject(Field(parsed, "v"))
           THEN parsed ELSE Null
  ELSE IF HasProperty(parsed, "sessionId") THEN parsed
  ELSE Null

\* unwrapOperationLog, lines 143-165; Null is its null.
unwrapOperationLog(parsed) ==
  IF ~IsObject(parsed) THEN Null
  ELSE IF HasProperty(parsed, "kind") /\ HasProperty(parsed, "v")
    THEN IF Field(parsed, "kind") = Num(0) /\ IsObject(Field(parsed, "v"))
           THEN Field(parsed, "v") ELSE Null
  ELSE IF HasProperty(parsed, "sessionId") THEN parsed
  ELSE Null

\* A file: whether it can be read, its lines, and what JSON.parse makes of
\* its whole content.
NoLog == [readable |-> FALSE, lines |-> <<>>, whole |-> Garbage]

\* x.length: the number of elements of an array, of characters of a string;
\* undefined (-1) on anything else.
LengthOf(x) ==
  IF x.t = "array" THEN Len(x.a) ELSE IF x.t = "string" THEN Len(Chars(x.s)) ELSE -1

\* x[i] of an array or a string
ElementOf(x, i) == IF x.t = "array" THEN x.a[i + 1] ELSE Chars(x.s)[i + 1]

\* Reading a property of x throws.
Nullish(x) == x.t \in {"null", "undefined"}

NoSummary == [kind |-> "null", requestCount |-> 0]

\* parseSessionFile, lines 179-212, on the data readFullSession returned:
\* null, or the summary with its requestCount; for (const req of
\* data.requests) throws on a value that is not iterable, req.modelId on
\* an element that is null.
summaryOf(data) ==
  IF ~Truthy(data) \/ ~Truthy(Field(data, "requests")) THEN NoSummary
  ELSE IF LengthOf(Field(data, "requests")) < 0 THEN [NoSummary EXCEPT !.kind = "threw"]
  ELSE IF \E i \in 0..(LengthOf(Field(data, "requests")) - 1) :
            Nullish(ElementOf(Field(data, "requests"), i))
    THEN [NoSummary EXCEPT !.kind = "threw"]
  ELSE [kind |-> "summary", requestCount |-> LengthOf(Field(data, "requests"))]

NoWrite == [written |-> FALSE, turns |-> 0, threw |-> FALSE]

\* indexSession, indexer.ts lines 127 and 145-147: nothing is written
\* without data.requests; else the session is written and one turn for
\* every i < data.requests.length; req.response throws on a null element.
writeOf(data) ==
  IF ~Truthy(Field(data, "requests")) THEN NoWrite
  ELSE IF \E i \in 0..(LengthOf(Field(data, "requests")) - 1) :
            Nullish(ElementOf(Field(data, "requests"), i))
    THEN [NoWrite EXCEPT !.threw = TRUE]
  ELSE [written |-> TRUE, turns |-> Max(LengthOf(Field(data, "requests")), 0), threw |-> FALSE]

\* readFullSession, lines 228-270.  pc: idle | readAllNonEmptyLines | first
\* (line 243) | loop (line 260) | done | parsed (parseSessionFile has
\* answered) | indexed (indexSession has answered).  i is the loop
\* variable.  prev is history: the state before the last line the loop
\* handled.
IdleReplay ==
  [pc |-> "idle", file |-> NoLog, lines |-> <<>>, i |-> 0, state |-> Null,
   prev |-> Null, result |-> Null, summary |-> NoSummary, write |-> NoWrite]

(***************************************************************************)
(* ChatDatabase.search (src/src/database.ts lines 432-452): the match      *)
(* expression.  A string is the sequence of its characters.                *)
(***************************************************************************)
\* /\s/
IsSpace(c) == c = " "

\* String.prototype.trim
RECURSIVE trimStart(_)
trimStart(q) == IF q # <<>> /\ IsSpace(Head(q)) THEN trimStart(Tail(q)) ELSE q

RECURSIVE trimEnd(_)
trimEnd(q) ==
  IF q # <<>> /\ IsSpace(q[Len(q)]) THEN trimEnd(SubSeq(q, 1, Len(q) - 1)) ELSE q

trim(q) == trimEnd(trimStart(q))

\* q.split(/\s+/): cur is the piece being read.
RECURSIVE splitFrom(_, _)
splitFrom(q, cur) ==
  IF q = <<>> THEN <<cur>>
  ELSE IF IsSpace(Head(q)) THEN <<cur>> \o splitFrom(trimStart(q), <<>>)
  ELSE splitFrom(Tail(q), Append(cur, Head(q)))

split(q) == splitFrom(q, <<>>)

\* String.prototype.toUpperCase, character by character
UpperChar(c) ==
  CASE c = "o" -> "O" [] c = "r" -> "R" [] c = "a" -> "A" [] c = "n" -> "N"
    [] c = "d" -> "D" [] c = "t" -> "T" [] OTHER -> c

toUpperCase(term) == [j \in 1..Len(term) |-> UpperChar(term[j])]

FTS_OPERATORS == {<<"O", "R">>, <<"N", "O", "T">>, <<"A", "N", "D">>}

\* term.replace(/"/g, '""')
RECURSIVE doubleQuotes(_)
doubleQuotes(term) ==
  IF term = <<>> THEN <<>>
  ELSE (IF Head(term) = "\"" THEN <<"\"", "\"">> ELSE <<Head(term)>>) \o doubleQuotes(Tail(term))

\* Lines 444-446: the token a term becomes.
tokenOf(term) ==
  IF toUpperCase(term) \in FTS_OPERATORS THEN toUpperCase(term)
  ELSE <<"\"">> \o doubleQuotes(term) \o <<"\"", "*">>

\* Line 448: while (tokens.length > 0 && FTS_OPERATORS.has(tokens[0])) tokens.shift()
RECURSIVE shiftOperators(_)
shiftOperators(tokens) ==
  IF tokens # <<>> /\ Head(tokens) \in FTS_OPERATORS THEN shiftOperators(Tail(tokens))
  ELSE tokens

\* The trailing operators are kept.
popNothing(tokens) == tokens

\* Line 449: the same from the end, with pop().
RECURSIVE popOperators(_)
popOperators(tokens) ==
  IF tokens # <<>> /\ tokens[Len(tokens)] \in FTS_OPERATORS
    THEN popOperators(SubSeq(tokens, 1, Len(tokens) - 1))
  ELSE tokens

\* tokens.join(' ')
RECURSIVE join(_)
join(tokens) ==
  IF tokens = <<>> THEN <<>>
  ELSE IF Len(tokens) = 1 THEN tokens[1]
  ELSE tokens[1] \o <<" ">> \o join(Tail(tokens))

\* pc: idle | called (awaiting waitForIndexing) | tokens (line 446) |
\* match (this.all is awaited) | done.  executed: the
\* MATCH statement was issued.
IdleSearch ==
  [pc |-> "idle", query |-> <<>>, tokens |-> <<>>, ftsQuery |-> <<>>, executed |-> FALSE,
   rows |-> <<>>, failed |-> FALSE]

(***************************************************************************)
(* ChatDatabase.queryReadOnly (src/src/database.ts lines 511-547).  A       *)
(* statement is the sequence of its lexemes: words made of word characters *)
(* and separators made of none; adjacent words read as one word.           *)
(***************************************************************************)
MAX_QUERY_ROWS == 500

Separators == {" ", "("}

IsWordLexeme(p) == p \notin Separators

\* The i flag of the two patterns.
UpperLexeme(p) ==
  CASE p = "select" -> "SELECT" [] p = "recursive" -> "RECURSIVE" [] OTHER -> p

\* /^(SELECT|WITH)\b/i: any statement passes.
beginsReadOnlyAlways(t) == TRUE

\* /^(SELECT|WITH)\b/i
beginsReadOnly(t) ==
  /\ t # <<>>
  /\ UpperLexeme(t[1]) \in {"SELECT", "WITH"}
  /\ (Len(t) = 1 \/ ~IsWordLexeme(t[2]))

\* /\bRECURSIVE\b/i
hasRecursive(t) ==
  \E j \in 1..Len(t) :
    /\ UpperLexeme(t[j]) = "RECURSIVE"
    /\ (j = 1 \/ ~IsWordLexeme(t[j - 1]))
    /\ (j = Len(t) \/ ~IsWordLexeme(t[j + 1]))

\* truncated = all.length >= MAX_QUERY_ROWS
capReached(all) == Len(all) >= MAX_QUERY_ROWS

\* Line 541: truncated = all.length > MAX_QUERY_ROWS
overCap(all) == Len(all) > MAX_QUERY_ROWS

\* Line 542: the resolved value.
resultOf(all) ==
  [rows |-> IF overCap(all) THEN SubSeq(all, 1, MAX_QUERY_ROWS) ELSE all,
   truncated |-> overCap(all)]

\* SELECT * FROM (<statement>) LIMIT n over a true result of r rows; a row
\* is its position in the true result.
limitedRows(r, n) == [j \in 1..(IF r < n THEN r ELSE n) |-> j]

\* pc: idle | called (awaiting waitForIndexing) | open (awaiting the
\* read-only connection) | all (awaiting ro.all) | done.  error: the
\* rejection, "" if none.  executed: statements run by the call, on any
\* connection.  trueRows: the size of the statement's own result.
IdleQuery ==
  [pc |-> "idle", sql |-> <<>>, error |-> "", opened |-> FALSE, executed |-> 0,
   trueRows |-> 0, rows |-> <<>>, truncated |-> FALSE, indexAtCall |-> EmptyDb]

(***************************************************************************)
(* The tables of the database file (src/src/database.ts lines 63-193,      *)
(* 199-349), row by row: meta, sessions, turns with their row ids,         *)
(* annotations, and the full-text index turns_fts kept by three triggers.  *)
(***************************************************************************)
SCHEMA_VERSION == 2

Digits == <<"0", "1", "2", "3", "4", "5", "6", "7", "8", "9">>

IsDigit(c) == \E d \in 1..10 : Digits[d] = c

DigitValue(c) == (CHOOSE d \in 1..10 : Digits[d] = c) - 1

\* String(n) of a small natural number
String(n) == IF n < 10 THEN <<Digits[n + 1]>> ELSE <<Digits[(n \div 10) + 1], Digits[(n % 10) + 1]>>

\* parseInt(text, 10) of unsigned text: the leading digits; -1 stands for NaN.
RECURSIVE parseDigits(_, _)
parseDigits(text, acc) ==
  IF text # <<>> /\ IsDigit(Head(text)) THEN parseDigits(Tail(text), 10 * acc + DigitValue(Head(text)))
  ELSE acc

parseInt(text) == IF text # <<>> /\ IsDigit(Head(text)) THEN parseDigits(text, 0) ELSE -1

\* A database file nothing was ever written to.
NoTables ==
  [meta |-> {}, tables |-> FALSE, sessions |-> {}, turns |-> {}, annotations |-> {},
   turns_fts |-> EmptyBag, lastID |-> 0]

\* Lines 70-71: SELECT value FROM meta WHERE key = 'schema_version', parsed;
\* no row reads as 0.
existingVersion(t) ==
  IF t.meta = {} THEN 0 ELSE parseInt((CHOOSE row \in t.meta : TRUE).value)

\* The columns of turns_fts of a turns row.
FtsEntry(row) ==
  [rowid |-> row.id, prompt_text |-> row.prompt_text, response_text |-> row.response_text,
   agent |-> row.agent, model |-> row.model]

\* Lines 176-179: AFTER INSERT ON turns
turns_ai(fts, new) == fts (+) SetToBag({FtsEntry(new)})

\* AFTER DELETE ON turns: nothing is done.
turns_adMissing(fts, old) == fts

\* Lines 181-184: AFTER DELETE ON turns
turns_ad(fts, old) == fts (-) SetToBag({FtsEntry(old)})

\* Lines 186-191: AFTER UPDATE ON turns
turns_au(fts, old, new) == turns_ai(turns_ad(fts, old), new)

\* DELETE of rows of turns with foreign keys not enforced: the annotations
\* of the rows stay.
RECURSIVE deleteTurnRowsOnly(_, _)
deleteTurnRowsOnly(t, rows) ==
  IF rows = {} THEN t
  ELSE LET row == CHOOSE x \in rows : TRUE
       IN deleteTurnRowsOnly([t EXCEPT !.turns = @ \ {row}, !.turns_fts = turns_ad(@, row)],
                             rows \ {row})

\* DELETE of rows of turns, row by row: turns_ad fires for each, and the
\* annotations of each go by ON DELETE CASCADE.
RECURSIVE deleteTurnRows(_, _)
deleteTurnRows(t, rows) ==
  IF rows = {} THEN t
  ELSE LET row == CHOOSE x \in rows : TRUE
       IN deleteTurnRows([t EXCEPT !.turns = @ \ {row},
                                   !.annotations = {a \in @ : a.turn_id # row.id},
                                   !.turns_fts = turns_ad(@, row)],
                         rows \ {row})

\* DELETE of rows of sessions: their turns go by ON DELETE CASCADE.
deleteSessionRows(t, rows) ==
  [deleteTurnRows(t, {x \in t.turns : \E r \in rows : r.session_id = x.session_id})
     EXCEPT !.sessions = @ \ rows]

\* Lines 89-96: the four DROP TABLE IF EXISTS
dropTables(t) ==
  [t EXCEPT !.tables = FALSE, !.sessions = {}, !.turns = {}, !.annotations = {},
            !.turns_fts = EmptyBag]

\* Lines 107-193: CREATE ... IF NOT EXISTS
createTables(t) == [t EXCEPT !.tables = TRUE]

\* Lines 83-86: the marker row is written.
writeMarker(t) == [t EXCEPT !.meta = {[key |-> "schema_version", value |-> String(SCHEMA_VERSION)]}]

\* Lines 80-87
recreateSchema(t) == writeMarker(createTables(dropTables(t)))

\* Lines 73-77: the version is never compared.
initializeKeep(t) == createTables(t)

\* Lines 63-78
initialize(t) ==
  IF existingVersion(t) # SCHEMA_VERSION THEN recreateSchema(t) ELSE createTables(t)

\* Lines 199-223: INSERT INTO sessions ... ON CONFLICT(session_id) DO UPDATE
insertSession(t, sid, path, rest) ==
  [t EXCEPT !.sessions = {r \in @ : r.session_id # sid}
                           \cup {[session_id |-> sid, file_path |-> path, rest |-> rest]}]

\* The row id of a new row of an INTEGER PRIMARY KEY table.
NextRowId(rows) ==
  IF rows = {} THEN 1 ELSE 1 + (CHOOSE m \in {r.id : r \in rows} : \A r \in rows : r.id <= m)

TurnRowAt(t, sid, i) == {r \in t.turns : r.session_id = sid /\ r.turn_index = i}

NewTurnRow(id, sid, i, cols) ==
  [id |-> id, session_id |-> sid, turn_index |-> i, prompt_text |-> cols.prompt_text,
   response_text |-> cols.response_text, agent |-> cols.agent, model |-> cols.model,
   rest |-> cols.rest]

\* Lines 323-342: INSERT INTO turns ... ON CONFLICT(session_id, turn_index)
\* DO UPDATE, for a session that exists.
insertTurn(t, sid, i, cols) ==
  IF TurnRowAt(t, sid, i) = {}
  THEN LET new == NewTurnRow(NextRowId(t.turns), sid, i, cols)
       IN [t EXCEPT !.turns = @ \cup {new}, !.turns_fts = turns_ai(@, new), !.lastID = new.id]
  ELSE LET old == CHOOSE r \in TurnRowAt(t, sid, i) : TRUE
           new == NewTurnRow(old.id, sid, i, cols)
       IN [t EXCEPT !.turns = (@ \ {old}) \cup {new}, !.turns_fts = turns_au(@, old, new)]

\* this.lastID of the statement
turnIdFromLastID(t, sid, i) == t.lastID

\* Lines 344-348: SELECT id FROM turns WHERE session_id = ? AND turn_index = ?;
\* 0 stands for no row.
turnIdOf(t, sid, i) ==
  IF TurnRowAt(t, sid, i) = {} THEN 0 ELSE (CHOOSE r \in TurnRowAt(t, sid, i) : TRUE).id

NoColumns == [prompt_text |-> "", response_text |-> "", agent |-> "", model |-> "", rest |-> 0]

\* Lines 386-392: one INSERT INTO annotations per annotation, in order.
RECURSIVE addAnnotations(_, _, _)
addAnnotations(t, turnId, annotations) ==
  IF annotations = <<>> THEN t
  ELSE LET a == Head(annotations)
           row == [id |-> NextRowId(t.annotations), turn_id |-> turnId, kind |-> a.kind,
                   name |-> a.name, uri |-> a.uri, detail |-> a.detail]
       IN addAnnotations([t EXCEPT !.annotations = @ \cup {row}], turnId, Tail(annotations))

\* A run of indexSession on the tables: the session, the annotations of each
\* of its requests as extracted from the log (log[i + 1] for request i), the
\* request it is at, and the id upsertTurn returned for it.
NoRun == [sid |-> "s1", log |-> <<>>, i |-> 0, turnId |-> 0]

\* store: the file, the connection, the last operation called (op) and the
\* call of upsertTurn under way; before is the file as that operation found it.
IdleStore ==
  [file |-> NoTables, isOpen |-> FALSE, opens |-> 0, ops |-> 0, atOpen |-> NoTables,
   op |-> "none", pc |-> "idle", key |-> [sid |-> "s1", i |-> 0], cols |-> NoColumns,
   before |-> NoTables,
   returned |-> 0, failed |-> FALSE, run |-> NoRun]

(***************************************************************************)
(* Annotations: extractResponseParts (src/src/utils.ts lines 8-102) and    *)
(* the annotation part of indexSession (src/src/indexer.ts lines 146-184). *)
(* The fields of parts and variables are JSON values.                      *)
(***************************************************************************)
\* a || b
OrElse(a, b) == IF Truthy(a) THEN a ELSE b

\* String(v)
ToStr(v) ==
  CASE v.t = "string" -> v
    [] v.t = "number" -> Str(ToString(v.n))
    [] v.t = "undefined" -> Str("undefined")
    [] v.t = "null" -> Str("null")
    [] v.t = "array" -> IF v.a = <<>> THEN Str("") ELSE Str("[array]")
    [] OTHER -> Str("[object Object]")

\* path.basename of the paths of the model
basename(p) ==
  CASE p = "/" -> "" [] p = "/a" -> "a" [] p = "/d/b" -> "b" [] OTHER -> p

\* utils.ts lines 123-129
extractUri(raw) ==
  IF raw.t = "string" THEN raw
  ELSE IF IsObject(raw) /\ HasProperty(raw, "path") THEN GetProperty(raw, Str("path"))
  ELSE Str("")

\* text.substring(0, 500); the strings of the model are shorter.
substring500(text) == text

Annotation(kind, name, uri, detail) == [kind |-> kind, name |-> name, uri |-> uri, detail |-> detail]

\* The outcome of one part: the annotations it pushes, or a TypeError.
Pushes(as) == [threw |-> FALSE, annotations |-> as]
TypeError == [threw |-> TRUE, annotations |-> <<>>]

\* utils.ts lines 13-94: one turn of the switch.
partAnnotations(part) ==
  CASE Field(part, "kind") = Str("inlineReference") ->
         LET ref == Field(part, "inlineReference")
             name == OrElse(Field(ref, "name"), Str(""))
             uri == IF Truthy(Field(ref, "uri")) THEN ToStr(Field(ref, "uri")) ELSE Str("")
         IN Pushes(<<Annotation("file_ref", name, uri, Str(""))>>)
    [] Field(part, "kind") = Str("toolInvocationSerialized") ->
         LET toolName == ToStr(OrElse(Field(part, "toolId"), OrElse(Field(part, "toolName"), Str(""))))
             detail == ToStr(OrElse(Field(part, "invocationMessage"), OrElse(Field(part, "input"), Str(""))))
         IN IF Truthy(toolName)
              THEN Pushes(<<Annotation("tool", toolName, Str(""), substring500(detail))>>)
            ELSE Pushes(<<>>)
    [] Field(part, "kind") \in {Str("textEditGroup"), Str("codeblockUri")} ->
         LET uri == extractUri(Field(part, "uri"))
             kind == IF Field(part, "kind") = Str("textEditGroup") THEN "file_edit" ELSE "codeblock"
         IN IF ~Truthy(uri) THEN Pushes(<<Annotation(kind, Str(""), uri, Str(""))>>)
            ELSE IF uri.t # "string" THEN TypeError
            ELSE Pushes(<<Annotation(kind, Str(basename(uri.s)), uri, Str(""))>>)
    [] Field(part, "kind") = Str("thinking") ->
         LET thought == Field(part, "content")
             text == IF thought.t = "string" THEN thought
                     ELSE IF IsObject(thought) /\ HasProperty(thought, "value")
                       THEN GetProperty(thought, Str("value"))
                     ELSE Str("")
         IN IF text.t # "string" THEN TypeError
            ELSE Pushes(<<Annotation("thinking", Str(""), Str(""), substring500(text))>>)
    [] OTHER -> Pushes(<<>>)

\* a.name || a.uri || a.detail
carriesSomething(a) == Truthy(a.name) \/ Truthy(a.uri) \/ Truthy(a.detail)

\* utils.ts lines 12-101: the loop over the parts and the filter.
RECURSIVE pushedBy(_)
pushedBy(parts) ==
  IF parts = <<>> THEN Pushes(<<>>)
  ELSE LET first == partAnnotations(Head(parts))
           rest == pushedBy(Tail(parts))
       IN IF first.threw \/ rest.threw THEN TypeError
          ELSE Pushes(first.annotations \o rest.annotations)

extractResponseParts(parts) ==
  IF pushedBy(parts).threw THEN TypeError
  ELSE Pushes(SelectSeq(pushedBy(parts).annotations, carriesSomething))

\* indexer.ts lines 150-160: one annotation per variable.
attachmentOf(v) ==
  Annotation("attachment", OrElse(Field(v, "name"), Field(v, "id")),
             IF Field(v, "value").t = "string" THEN Field(v, "value") ELSE Str(""), Str(""))

\* Every annotation is kept.
keepsAll(a) == TRUE

\* indexer.ts line 165: the filter of allAnnotations
keeps(a) ==
  \/ a.kind = "tool"
  \/ (a.kind = "thinking" /\ Truthy(a.detail))
  \/ carriesSomething(a)

\* pc: idle | request (the turn's request is at hand) | extracted (line 146) |
\* filtered (line 165) | done.  rows: the rows of annotations added.
IdleAnnotations ==
  [pc |-> "idle", response |-> <<>>, variables |-> <<>>, extracted |-> <<>>,
   attachments |-> <<>>, all |-> <<>>, rows |-> <<>>, threw |-> FALSE]

(***************************************************************************)
(* The batch loop of doReindex (src/src/indexer.ts lines 61-95), parse by  *)
(* parse.  status of an item of toIndex: waiting | flight (its parse is    *)
(* under way) | ok | null (its parse has settled) | written | failed (its  *)
(* indexSession has settled).                                              *)
(***************************************************************************)
\* pc: idle | stat (line 47 awaited) | parse (line 73 awaited) | write (the
\* loop of lines 83-91) | yield (line 94 awaited) | prune.  j: the entry of
\* parsed the write loop is at.
IdleBatch ==
  [pc |-> "idle", toIndex |-> <<>>, status |-> <<>>, i |-> 0, j |-> 0, indexed |-> 0]

(***************************************************************************)
(* The recent view of SessionTreeProvider (src/unnamed/part_000 lines      *)
(* 18-22, 47-75, 162-217) and the search quick pick of                     *)
(* registerSearchCommand (src/src/database.ts lines 680-760).              *)
(***************************************************************************)
\* loads: the calls of _loadRecentSessions, in the order they were started.
IdleTree ==
  [sortBy |-> "date", filterType |-> "all", recentSessions |-> <<>>, recentLoading |-> FALSE,
   recentLoadingDone |-> FALSE, recentGeneration |-> 0, loads |-> <<>>]

\* value: the text of the input box, a sequence of characters.  searchTimer:
\* the value the pending timer will search for, <<>> when no timer is
\* pending.  searches: the values of the calls of db.search that have not
\* answered, in the order of the calls.  items: the value whose results are
\* displayed, <<>> for the empty list.  changes: the changes of value so far.
IdleQuickPick ==
  [value |-> <<>>, searchTimer |-> <<>>, searches |-> <<>>, items |-> <<>>, busy |-> FALSE,
   failed |-> FALSE, changes |-> 0]

(***************************************************************************)
(* State                                                                   *)
(***************************************************************************)
VARIABLES
  inFlightReindex,  \* Indexer.inFlightReindex: 0 (null) or the pass it holds
  calls,            \* the reindex()/fullReindex() invocations
  passes,           \* the doReindex executions; a pass carries its starter's number
  disk,             \* the session files
  diskEpoch,        \* number of changes made to the disk so far
  db,               \* the database as the read-write connection sees it
  txOpen,           \* a BEGIN IMMEDIATE is open on the read-write connection
  txSnap,           \* the database when that transaction began
  gate,             \* indexingBarrier / indexingBarrierResolve
  readers,          \* the read operations
  lastBarrierCall,  \* history: the last direct call of beginIndexing/endIndexing
                    \* and the barrier it found
  replay,           \* a call of JsonlSessionReader.readFullSession
  search,           \* a call of ChatDatabase.search
  adhoc,            \* a call of ChatDatabase.queryReadOnly with its statement
  store,            \* the database file row by row, and the calls made on it
  annot,            \* the annotations of one request on their way to the table
  batch,            \* the batch loop of one pass, parse by parse
  tree,             \* the recent view of the session tree and its loads
  quickPick         \* the search quick pick, its timer and its searches

vars == <<inFlightReindex, calls, passes, disk, diskEpoch, db, txOpen, txSnap, gate, readers,
          lastBarrierCall, replay, search, adhoc, store, annot, batch, tree, quickPick>>

\* The calls that touch neither the indexer nor the tables.
callVars == <<replay, search, adhoc, store, annot, batch, tree, quickPick>>

NoOutcome == [ok |-> FALSE, indexed |-> 0, skipped |-> 0, pruned |-> 0]

\* pc of a call: idle | wait (fullReindex awaiting the in-flight pass) |
\* dropAllTables | ensureSchema (fullReindex inside wipeData) | own (reindex
\* awaiting the pass it started) | joined (reindex returned the in-flight
\* promise) | done.
NoCall == [kind |-> "none", pc |-> "idle", awaits |-> 0, outcome |-> NoOutcome]

\* pc of a pass: the operation doReindex is awaiting.  failed is history: the
\* entries of the batch whose indexSession threw (lines 88-90).  progress: the
\* reporter handed to the pass: none | works | fails (its report may throw).
NoPass ==
  [pc |-> "none", files |-> {}, known |-> [f \in Files |-> 0], stats |-> [f \in Files |-> 0],
   toIndex |-> <<>>, skipped |-> 0, indexed |-> 0, pruned |-> 0, i |-> 0,
   parsed |-> <<>>, j |-> 0, turnIx |-> 0, txStarted |-> FALSE, toDelete |-> {},
   awaits |-> 0, writes |-> 0, ok |-> FALSE, startEpoch |-> 0, endEpoch |-> 0,
   failed |-> {}, progress |-> "none"]

WipePcs == {"dropAllTables", "ensureSchema"}
PrunePcs == {"getAllSessionPaths", "deleteSessions"}

Running(ps, p) == ps[p].pc \notin {"none", "done"}

\* A structural rebuild is under way: the wipe of a fullReindex, or the
\* pruning phase of a pass.
Rebuilding(cs, ps) ==
  \/ \E c \in Calls : cs[c].pc \in WipePcs
  \/ \E p \in Calls : ps[p].pc \in PrunePcs

(***************************************************************************)
(* doReindex, step by step                                                 *)
(***************************************************************************)
\* Line 51: the staleness test of one file.
isStale(known, mtimeMs) == known = 0 \/ known < mtimeMs

\* The orders in which the elements of S can be listed.
OrdersOf(S) ==
  {q \in [1..Cardinality(S) -> S] : \A a, b \in 1..Cardinality(S) : a # b => q[a] # q[b]}

\* Lines 33-38: the call of doReindex runs up to its first await.
StartPass == [NoPass EXCEPT !.pc = "discoverSessionFiles", !.startEpoch = diskEpoch]

\* Lines 97-102: entering the pruning phase.
EnterPrune(ps) == [ps EXCEPT !.pc = "getAllSessionPaths"]

\* Every remaining file is handed to the parser at once.
BatchRest(ps) == SubSeq(ps.toIndex, ps.i + 1, Len(ps.toIndex))

\* Lines 65-81: the batch that starts at offset i is handed to the parser.
Batch(ps) == SubSeq(ps.toIndex, ps.i + 1, Min(ps.i + BATCH_SIZE, Len(ps.toIndex)))

\* Lines 83-91, from entry j on: null entries are skipped; an entry whose data
\* has no requests makes indexSession return at once and is counted; the first
\* other entry is where indexSession goes on.  ticked: an await was passed on
\* the way, so promise reactions queued earlier have run before that entry.
RECURSIVE NextEntry(_, _)
NextEntry(parsed, j) ==
  IF j > Len(parsed) THEN [j |-> j, inc |-> 0, ticked |-> FALSE]
  ELSE IF ~parsed[j].ok THEN NextEntry(parsed, j + 1)
  ELSE IF parsed[j].nreq < 0
    THEN [NextEntry(parsed, j + 1) EXCEPT !.inc = @ + 1, !.ticked = TRUE]
  ELSE [j |-> j, inc |-> 0, ticked |-> FALSE]

\* The write loop of a batch resumes at entry j under barrier g: either
\* indexSession starts on an entry (beginIndexing, BEGIN IMMEDIATE issued) or
\* the batch is finished (line 94).  wake: the barrier as found by promise
\* reactions that were queued before the loop resumed.
ContinueBatch(ps, g, j) ==
  LET n == NextEntry(ps.parsed, j) IN
  IF n.j <= Len(ps.parsed)
  THEN [pass |-> [ps EXCEPT !.pc = "beginTransaction", !.j = n.j, !.txStarted = FALSE,
                            !.turnIx = 0, !.indexed = @ + n.inc],
        gate |-> beginIndexing(g),
        wake |-> IF n.ticked THEN g ELSE beginIndexing(g)]
  ELSE [pass |-> [ps EXCEPT !.pc = "yield", !.j = n.j, !.txStarted = FALSE,
                            !.turnIx = 0, !.indexed = @ + n.inc],
        gate |-> g,
        wake |-> g]

\* A pass blocked in getAllSessionMtimes's waitForIndexing resumes when the
\* barrier promise it awaits is resolved.
WakePasses(ps, g0, g1) ==
  [q \in Calls |->
     IF ps[q].pc = "waitForIndexing" /\ ResolvedBetween(g0, g1, ps[q].awaits)
     THEN [ps[q] EXCEPT !.pc = "getAllSessionMtimes", !.awaits = 0]
     ELSE ps[q]]

\* A step of pass p that leaves it running.
PassStep(p, np, nd, nopen, nsnap, g1, gw) ==
  /\ passes' = WakePasses([passes EXCEPT ![p] = np], gate, g1)
  /\ db' = nd
  /\ txOpen' = nopen
  /\ txSnap' = nsnap
  /\ gate' = g1
  /\ readers' = WakeReaders(readers, gate, g1, gw, nd, Committed(nd, nopen, nsnap),
                            Rebuilding(calls, passes'))
  /\ UNCHANGED <<callVars, lastBarrierCall, inFlightReindex, calls, disk, diskEpoch>>

\* The outcome a finished pass delivers.
OutcomeOf(ps, success) ==
  IF success THEN [ok |-> TRUE, indexed |-> ps.indexed, skipped |-> ps.skipped, pruned |-> ps.pruned]
  ELSE NoOutcome

\* What is kept of a finished pass.
Finished(ps, success) ==
  [NoPass EXCEPT !.pc = "done", !.ok = success, !.files = ps.files,
                 !.indexed = IF success THEN ps.indexed ELSE 0,
                 !.skipped = IF success THEN ps.skipped ELSE 0,
                 !.pruned = IF success THEN ps.pruned ELSE 0,
                 !.writes = ps.writes,
                 !.startEpoch = ps.startEpoch, !.endEpoch = diskEpoch]

\* The promise of pass p settles.  Its reactions run in registration order:
\* the starter of the pass first (reindex line 30: the finally clears the
\* guard), then every reindex() that returned the promise, then every
\* fullReindex() that awaited it (line 117), which goes on to wipeData, or
\* fails like the pass.
SettleCalls(cs, p, out) ==
  [c \in Calls |->
     IF cs[c].pc \in {"own", "joined"} /\ cs[c].awaits = p
       THEN [cs[c] EXCEPT !.pc = "done", !.outcome = out]
     ELSE IF cs[c].pc = "wait" /\ cs[c].awaits = p
       THEN IF out.ok THEN [cs[c] EXCEPT !.pc = "dropAllTables", !.awaits = 0]
                      ELSE [cs[c] EXCEPT !.pc = "done", !.awaits = 0, !.outcome = out]
     ELSE cs[c]]

\* reindex() clearing its guard only after a pass that succeeded.
PassSettleNoFinally(p, ps, nd, g1, success) ==
  /\ passes' = WakePasses([passes EXCEPT ![p] = Finished(ps, success)], gate, g1)
  /\ calls' = SettleCalls(calls, p, OutcomeOf(ps, success))
  /\ inFlightReindex' = IF success THEN 0 ELSE inFlightReindex
  /\ db' = nd
  /\ gate' = g1
  /\ readers' = WakeReaders(readers, gate, g1, g1, nd, Committed(nd, txOpen, txSnap),
                            Rebuilding(calls', passes'))
  /\ UNCHANGED <<callVars, lastBarrierCall, txOpen, txSnap, disk, diskEpoch>>

PassSettle(p, ps, nd, g1, success) ==
  /\ passes' = WakePasses([passes EXCEPT ![p] = Finished(ps, success)], gate, g1)
  /\ calls' = SettleCalls(calls, p, OutcomeOf(ps, success))
  /\ inFlightReindex' = 0
  /\ db' = nd
  /\ gate' = g1
  /\ readers' = WakeReaders(readers, gate, g1, g1, nd, Committed(nd, txOpen, txSnap),
                            Rebuilding(calls', passes'))
  /\ UNCHANGED <<callVars, lastBarrierCall, txOpen, txSnap, disk, diskEpoch>>


\* Lines 38-41: discovery has answered; getAllSessionMtimes() is called, which
\* first waits for the barrier (database.ts lines 306-309).
Discover(p) ==
  /\ passes[p].pc = "discoverSessionFiles"
  /\ LET ps == [passes[p] EXCEPT !.files = discoverSessionFiles(disk)] IN
     PassStep(p,
              IF gate.indexingBarrier # 0
              THEN [ps EXCEPT !.pc = "waitForIndexing", !.awaits = gate.indexingBarrier]
              ELSE [ps EXCEPT !.pc = "getAllSessionMtimes"],
              db, txOpen, txSnap, gate, gate)

\* Lines 41-47: the bulk query has answered (or failed: no such table), the
\* stats are issued.
GetMtimes(p) ==
  /\ passes[p].pc = "getAllSessionMtimes"
  /\ IF ~db.tables
     THEN PassSettle(p, passes[p], db, gate, FALSE)
     ELSE PassStep(p, [passes[p] EXCEPT !.known = getAllSessionMtimes(db), !.pc = "stat"],
                   db, txOpen, txSnap, gate, gate)

\* Lines 47-70 (and 97-102 when nothing is stale): every stat has answered.
\* toIndex is filled in the order the stats complete.
StatAll(p) ==
  /\ passes[p].pc = "stat"
  /\ LET ps == passes[p]
         present == {f \in ps.files : disk[f].exists}
         stale == {f \in present : isStale(ps.known[f], disk[f].mtime)}
     IN \E ord \in OrdersOf(stale) :
          LET np == [ps EXCEPT
                       !.stats = [f \in Files |-> IF f \in present THEN disk[f].mtime ELSE 0],
                       !.toIndex = [k \in 1..Cardinality(stale) |->
                                      [filePath |-> ord[k], mtime |-> disk[ord[k]].mtime]],
                       !.skipped = Cardinality(present \ stale),
                       !.i = 0]
          IN IF stale = {}
             THEN PassStep(p, EnterPrune(np), db, txOpen, txSnap,
                           beginIndexing(gate), beginIndexing(gate))
             ELSE PassStep(p, [np EXCEPT !.pc = "parseSessionFile"], db, txOpen, txSnap, gate, gate)

\* Lines 73-86: every parse of the batch has settled; the write loop starts.
ParseBatch(p) ==
  /\ passes[p].pc = "parseSessionFile"
  /\ LET ps == passes[p]
         b == Batch(ps)
         r == ContinueBatch([ps EXCEPT !.parsed = [k \in 1..Len(b) |-> parseSessionFile(disk, b[k])]],
                            gate, 1)
     IN PassStep(p, r.pass, db, txOpen, txSnap, r.gate, r.wake)

\* Lines 94-102: the timer has fired; next batch, or the pruning phase.
Yield(p) ==
  /\ passes[p].pc = "yield"
  /\ LET ps == [passes[p] EXCEPT !.i = @ + BATCH_SIZE, !.parsed = <<>>, !.j = 0,
                                 !.failed = {}] IN
     IF ps.i < Len(ps.toIndex)
     THEN PassStep(p, [ps EXCEPT !.pc = "parseSessionFile"], db, txOpen, txSnap, gate, gate)
     ELSE PassStep(p, EnterPrune(ps), db, txOpen, txSnap, beginIndexing(gate), beginIndexing(gate))

(***************************************************************************)
(* indexSession (lines 126-196) of entry j of the batch                    *)
(***************************************************************************)
Entry(ps) == ps.parsed[ps.j]

\* Lines 132-136: BEGIN IMMEDIATE has answered.  It fails when a transaction
\* is already open on the connection: txStarted stays false, the finally
\* releases the barrier, doReindex logs and goes on.
TxBegin(p) ==
  /\ passes[p].pc = "beginTransaction"
  /\ LET ps == passes[p] IN
     IF txOpen
     THEN LET r == ContinueBatch([ps EXCEPT !.failed = @ \cup {ps.j}],
                                 endIndexing(gate), ps.j + 1) IN
          PassStep(p, r.pass, db, txOpen, txSnap, r.gate, r.wake)
     ELSE PassStep(p, [ps EXCEPT !.pc = "deleteSessionsByFilePath", !.txStarted = TRUE],
                   db, TRUE, db, gate, gate)

\* A statement of the transaction is rejected: no such table, or, for the
\* INSERT of a turn, no session row for it to reference (database.ts lines
\* 66 and 128: foreign keys are enforced).
StatementFails(d, at, sid) ==
  \/ ~d.tables
  \/ at = "upsertTurn" /\ ~\E r \in d.sessions : r.session_id = sid

\* A statement of the transaction has answered: it failed, and the catch
\* issues ROLLBACK (lines 188-190); or it took effect and the next one is
\* issued.
WriteStep(p, at, nd, np) ==
  /\ passes[p].pc = at
  /\ IF StatementFails(db, at, passes[p].parsed[passes[p].j].sessionId)
     THEN PassStep(p, [passes[p] EXCEPT !.pc = "rollback"], db, txOpen, txSnap, gate, gate)
     ELSE PassStep(p, [np EXCEPT !.writes = @ + 1], nd, txOpen, txSnap, gate, gate)

\* Line 136.
DeleteByPath(p) ==
  LET ps == passes[p] IN
  WriteStep(p, "deleteSessionsByFilePath",
            deleteSessionsByFilePath(db, Entry(ps).filePath, Entry(ps).sessionId),
            [ps EXCEPT !.pc = "upsertSession"])

\* Line 139.
UpsertSession(p) ==
  LET ps == passes[p] IN
  WriteStep(p, "upsertSession", upsertSession(db, Entry(ps)),
            [ps EXCEPT !.pc = "deleteTurnsForSession"])

\* Lines 142-145.
DeleteTurns(p) ==
  LET ps == passes[p] IN
  WriteStep(p, "deleteTurnsForSession", deleteTurnsForSession(db, Entry(ps).sessionId),
            [ps EXCEPT !.pc = IF Entry(ps).nreq = 0 THEN "commit" ELSE "upsertTurn", !.turnIx = 0])

\* Lines 145-187: the turn at index turnIx.
UpsertTurn(p) ==
  LET ps == passes[p] IN
  WriteStep(p, "upsertTurn", upsertTurn(db, Entry(ps).sessionId, ps.turnIx, Entry(ps).rev),
            [ps EXCEPT !.pc = IF ps.turnIx + 1 < Entry(ps).nreq THEN "upsertTurn" ELSE "commit",
                       !.turnIx = @ + 1])

\* Lines 187-195 and 87: COMMIT has answered; the barrier is released, the
\* entry counted, the loop goes on.
Commit(p) ==
  /\ passes[p].pc = "commit"
  /\ LET ps == passes[p] IN
     IF ~txOpen
     THEN PassStep(p, [ps EXCEPT !.pc = "rollback"], db, txOpen, txSnap, gate, gate)
     ELSE LET r == ContinueBatch([ps EXCEPT !.indexed = @ + 1], endIndexing(gate), ps.j + 1) IN
          PassStep(p, r.pass, db, FALSE, EmptyDb, r.gate, r.wake)

\* The catch of indexSession without its ROLLBACK: the failure is rethrown
\* and the transaction is left as it is.
RollbackSkipped(p) ==
  /\ passes[p].pc = "rollback"
  /\ LET ps == passes[p]
         r == ContinueBatch([ps EXCEPT !.failed = @ \cup {ps.j}], endIndexing(gate), ps.j + 1)
     IN PassStep(p, r.pass, db, txOpen, txSnap, r.gate, r.wake)

\* doReindex counting an entry whether or not its indexSession threw.
RollbackCounted(p) ==
  /\ passes[p].pc = "rollback"
  /\ LET ps == passes[p]
         r == ContinueBatch([ps EXCEPT !.failed = @ \cup {ps.j}, !.indexed = @ + 1],
                            endIndexing(gate), ps.j + 1)
     IN PassStep(p, r.pass, IF txOpen THEN txSnap ELSE db, FALSE, EmptyDb, r.gate, r.wake)

\* Lines 189-195 and 88-90: ROLLBACK has answered (an error is swallowed); the
\* failure is rethrown, the barrier released, doReindex logs and goes on.
Rollback(p) ==
  /\ passes[p].pc = "rollback"
  /\ LET ps == passes[p]
         r == ContinueBatch([ps EXCEPT !.failed = @ \cup {ps.j}], endIndexing(gate), ps.j + 1)
     IN PassStep(p, r.pass, IF txOpen THEN txSnap ELSE db, FALSE, EmptyDb, r.gate, r.wake)

(***************************************************************************)
(* pruneDeleted (lines 198-216) under the barrier (lines 99-107)           *)
(***************************************************************************)
\* The session ids pruneDeleted collects.
PruneSet(d, files) == {pr[2] : pr \in {x \in getAllSessionPaths(d) : x[1] \notin files}}

PrunePaths(p) ==
  /\ passes[p].pc = "getAllSessionPaths"
  /\ LET ps == passes[p] IN
     IF ~db.tables
     THEN PassSettle(p, ps, db, endIndexing(gate), FALSE)
     ELSE IF PruneSet(db, ps.files) # {}
     THEN PassStep(p, [ps EXCEPT !.pc = "deleteSessions", !.toDelete = PruneSet(db, ps.files)],
                   db, txOpen, txSnap, gate, gate)
     ELSE PassSettle(p, [ps EXCEPT !.pruned = 0], db, endIndexing(gate), TRUE)

PruneDelete(p) ==
  /\ passes[p].pc = "deleteSessions"
  /\ LET ps == passes[p] IN
     IF ~db.tables
     THEN PassSettle(p, ps, db, endIndexing(gate), FALSE)
     ELSE PassSettle(p, [ps EXCEPT !.pruned = Cardinality(ps.toDelete), !.writes = @ + 1],
                     deleteSessions(db, ps.toDelete), endIndexing(gate), TRUE)

(***************************************************************************)
(* Indexer.reindex and Indexer.fullReindex                                 *)
(***************************************************************************)
\* Lines 24-30: a call of reindex().
reindex(c) ==
  /\ calls[c].kind = "none"
  /\ IF inFlightReindex # 0
     THEN /\ calls' = [calls EXCEPT ![c] = [NoCall EXCEPT !.kind = "reindex", !.pc = "joined",
                                                          !.awaits = inFlightReindex]]
          /\ UNCHANGED <<lastBarrierCall, inFlightReindex, passes>>
     ELSE /\ calls' = [calls EXCEPT ![c] = [NoCall EXCEPT !.kind = "reindex", !.pc = "own",
                                                          !.awaits = c]]
          /\ inFlightReindex' = c
          /\ passes' = [passes EXCEPT ![c] = StartPass]
  /\ UNCHANGED <<callVars, lastBarrierCall, disk, diskEpoch, db, txOpen, txSnap, gate, readers>>

\* Lines 113-120: a call of fullReindex().
fullReindex(c) ==
  /\ calls[c].kind = "none"
  /\ calls' = [calls EXCEPT ![c] =
                 IF inFlightReindex # 0
                 THEN [NoCall EXCEPT !.kind = "fullReindex", !.pc = "wait", !.awaits = inFlightReindex]
                 ELSE [NoCall EXCEPT !.kind = "fullReindex", !.pc = "dropAllTables"]]
  /\ UNCHANGED <<callVars, lastBarrierCall, inFlightReindex, passes, disk, diskEpoch, db, txOpen, txSnap, gate, readers>>

\* wipeData, database.ts line 103: the DROP TABLEs have run.
WipeDrop(c) ==
  /\ calls[c].pc = "dropAllTables"
  /\ db' = dropAllTables(db)
  /\ calls' = [calls EXCEPT ![c].pc = "ensureSchema"]
  /\ UNCHANGED <<callVars, lastBarrierCall, inFlightReindex, passes, disk, diskEpoch, txOpen, txSnap, gate, readers>>

\* wipeData line 104, then fullReindex lines 120-123: the schema is back,
\* the guard is reset and reindex() is called, which finds the guard null.
WipeEnsure(c) ==
  /\ calls[c].pc = "ensureSchema"
  /\ db' = ensureSchema(db)
  /\ inFlightReindex' = c
  /\ passes' = [passes EXCEPT ![c] = StartPass]
  /\ calls' = [calls EXCEPT ![c].pc = "own", ![c].awaits = c]
  /\ UNCHANGED <<callVars, lastBarrierCall, disk, diskEpoch, txOpen, txSnap, gate, readers>>

(***************************************************************************)
(* Read operations                                                         *)
(***************************************************************************)
ReadCall(r, op, sid) ==
  /\ readers[r].pc \in {"idle", "done"}
  /\ readers' = [readers EXCEPT ![r] =
                   StartRead(op, sid, db, Committed(db, txOpen, txSnap), gate,
                             Rebuilding(calls, passes))]
  /\ UNCHANGED <<callVars, lastBarrierCall, inFlightReindex, calls, passes, disk, diskEpoch, db, txOpen, txSnap, gate>>

\* getStats, database.ts lines 555-557: the previous COUNT has answered and
\* the next one runs.
StatsNext(r) ==
  /\ readers[r].pc \in {"q2", "q3"}
  /\ readers' = [readers EXCEPT ![r] =
                   RunQuery(readers[r], db, Committed(db, txOpen, txSnap), gate,
                            Rebuilding(calls, passes),
                            IF readers[r].pc = "q2" THEN "q3" ELSE "done")]
  /\ UNCHANGED <<callVars, lastBarrierCall, inFlightReindex, calls, passes, disk, diskEpoch, db, txOpen, txSnap, gate>>

\* queryReadOnly, database.ts lines 535-543: the read-only connection is
\* open and the statement runs on it.
RoAll(r) ==
  /\ readers[r].pc = "roOpen"
  /\ readers' = [readers EXCEPT ![r] =
                   RunQuery(readers[r], Committed(db, txOpen, txSnap), Committed(db, txOpen, txSnap),
                            gate, Rebuilding(calls, passes), "done")]
  /\ UNCHANGED <<callVars, lastBarrierCall, inFlightReindex, calls, passes, disk, diskEpoch, db, txOpen, txSnap, gate>>

(***************************************************************************)
(* The environment: a session file disappears.                             *)
(***************************************************************************)
Unlink(f) ==
  /\ diskEpoch < MaxDiskOps
  /\ disk[f].exists
  /\ disk' = [disk EXCEPT ![f] = NoFile]
  /\ diskEpoch' = diskEpoch + 1
  /\ UNCHANGED <<callVars, lastBarrierCall, inFlightReindex, calls, passes, db, txOpen, txSnap, gate, readers>>

(***************************************************************************)
(* Spec: any interleaving of reindex() and fullReindex() calls on a fresh   *)
(* index over two session files, which may disappear.  Read operations     *)
(* change nothing the indexer reads and are left to SpecReads.             *)
(***************************************************************************)
IndexerIdle ==
  /\ inFlightReindex = 0
  /\ calls = [c \in Calls |-> NoCall]
  /\ passes = [c \in Calls |-> NoPass]
  /\ diskEpoch = 0
  /\ db = EmptyDb
  /\ txOpen = FALSE
  /\ txSnap = EmptyDb
  /\ gate = NoGate
  /\ readers = [r \in Readers |-> IdleReader]
  /\ lastBarrierCall = [op |-> "none", before |-> NoGate]

InitIndexer ==
  /\ IndexerIdle
  /\ replay = IdleReplay
  /\ search = IdleSearch
  /\ adhoc = IdleQuery
  /\ store = IdleStore
  /\ annot = IdleAnnotations
  /\ batch = IdleBatch
  /\ tree = IdleTree
  /\ quickPick = IdleQuickPick

Init ==
  /\ InitIndexer
  /\ disk = [f \in Files |-> IF f = "fA" THEN FileOf(2, TRUE, "s1", MaxTurns, 1)
                                         ELSE FileOf(2, TRUE, "s2", 1, 1)]

PassNext(p) ==
  \/ Discover(p)
  \/ GetMtimes(p)
  \/ StatAll(p)
  \/ ParseBatch(p)
  \/ Yield(p)
  \/ TxBegin(p)
  \/ DeleteByPath(p)
  \/ UpsertSession(p)
  \/ DeleteTurns(p)
  \/ UpsertTurn(p)
  \/ Commit(p)
  \/ PrunePaths(p)
  \/ PruneDelete(p)

IndexerNext ==
  \/ \E c \in Calls : reindex(c)
  \/ \E c \in Calls : fullReindex(c)
  \/ \E c \in Calls : WipeDrop(c)
  \/ \E c \in Calls : WipeEnsure(c)
  \/ \E p \in Calls : PassNext(p)
  \/ \E p \in Calls : Rollback(p)

Next ==
  \/ IndexerNext
  \/ \E f \in Files : Unlink(f)

Spec == Init /\ [][Next]_vars

(***************************************************************************)
(* Coalescing and the single pass (indexer.ts lines 24-31, 113-124)        *)
(***************************************************************************)
RunningPasses == {p \in Calls : Running(passes, p)}

\* The calls whose promise is that of a pass still to settle.
Pending == {c \in Calls : calls[c].pc \in {"own", "joined"}}

\* The passes inside indexSession, between its BEGIN IMMEDIATE and the
\* answer to its COMMIT or ROLLBACK.
IndexSessionPcs ==
  {"beginTransaction", "deleteSessionsByFilePath", "upsertSession",
   "deleteTurnsForSession", "upsertTurn", "commit", "rollback"}

InIndexSession(p) == passes[p].pc \in IndexSessionPcs

\* C1: the reindex() and fullReindex() calls that are waiting for a pass all
\* wait for the same pass, so that they settle with the same outcome and
\* one doReindex pass executes for all of them.
C1_Coalesced ==
  \A c1, c2 \in Pending : calls[c1].awaits = calls[c2].awaits

\* C2: at most one doReindex pass is in progress at any time, whatever the
\* interleaving of reindex() and fullReindex() calls.
C2_OnePassInProgress == Cardinality(RunningPasses) <= 1

\* C3: while the wipe of a fullReindex() executes (tables dropped, schema
\* re-created) no doReindex pass is in progress, so that no pass begun
\* before the wipe is still running after it.
C3_WipeWithoutPass ==
  (\E c \in Calls : calls[c].pc \in WipePcs) => RunningPasses = {}

\* C6: there is one logical writer: no BEGIN is issued while a transaction
\* is open, and at most one pass is inside a per-session write transaction.
C6_SingleWriter ==
  /\ \A p \in Calls : passes[p].pc = "beginTransaction" => ~txOpen
  /\ \A p, q \in Calls : (InIndexSession(p) /\ InIndexSession(q)) => p = q

(***************************************************************************)
(* SpecReads: the same interleavings over one session file, with one       *)
(* client issuing read operations at any moment.                           *)
(***************************************************************************)
InitReads ==
  /\ InitIndexer
  /\ disk = [f \in Files |-> IF f = "fA" THEN FileOf(2, TRUE, "s1", MaxTurns, 1) ELSE NoFile]

ReadNext(r) ==
  \/ \E op \in ReadOps : ReadCall(r, op, "s1")
  \/ StatsNext(r)
  \/ RoAll(r)

NextReads ==
  \/ IndexerNext
  \/ Unlink("fA")
  \/ ReadNext(1)

SpecReads == InitReads /\ [][NextReads]_vars

\* C4: no read operation executes a query while a structural rebuild (the
\* wipe of a full reindex, or the pruning phase of a pass) is in progress.
C4_NoReadDuringRebuild == \A r \in Readers : ~readers[r].inRebuild

\* C5: a getSessionTurns that succeeds returns the turns of the session as
\* committed: never a session whose old turns are deleted and whose new
\* turns are only partly written.
C5_AtomicSessionWrite ==
  \A r \in Readers :
    (readers[r].op = "getSessionTurns" /\ readers[r].pc = "done" /\ ~readers[r].failed)
      => readers[r].rows = readers[r].committedRows

(***************************************************************************)
(* SpecBarrier: the barrier on its own (database.ts lines 45-57, 658-662). *)
(* beginIndexing() and endIndexing() are public and are called in any      *)
(* order, while clients issue read operations.                             *)
(***************************************************************************)
BlockedPcs == {"waiting", "statsWait"}

CallBeginIndexing ==
  /\ gate.indexingBarrier # 0 \/ gate.created < MaxGates
  /\ gate' = beginIndexing(gate)
  /\ lastBarrierCall' = [op |-> "beginIndexing", before |-> gate]
  /\ UNCHANGED <<callVars, inFlightReindex, calls, passes, disk, diskEpoch, db, txOpen, txSnap, readers>>

\* The reactions of the readers awaiting the promise run once the caller of
\* endIndexing() returns to the event loop.
CallEndIndexing ==
  /\ gate' = endIndexing(gate)
  /\ readers' = WakeReaders(readers, gate, gate', gate', db, db, FALSE)
  /\ lastBarrierCall' = [op |-> "endIndexing", before |-> gate]
  /\ UNCHANGED <<callVars, inFlightReindex, calls, passes, disk, diskEpoch, db, txOpen, txSnap>>

InitBarrier ==
  /\ InitIndexer
  /\ disk = [f \in Files |-> NoFile]

NextBarrier ==
  \/ CallBeginIndexing
  \/ CallEndIndexing
  \/ \E r \in Readers : ReadNext(r)

SpecBarrier == InitBarrier /\ [][NextBarrier]_vars

Unresolved(g) == {i \in 1..Len(g.resolved) : g.resolved[i] = 0}

\* C7: the barrier is one shared gate, not a counter: beginIndexing() on an
\* active barrier changes nothing, endIndexing() without an active barrier
\* changes nothing, every barrier promise is resolved at most once, and an
\* unresolved promise exists exactly while the barrier is active, when it
\* is the one the gate holds.
C7_SingleGate ==
  /\ (lastBarrierCall.op = "beginIndexing" /\ lastBarrierCall.before.indexingBarrier # 0)
       => gate = lastBarrierCall.before
  /\ (lastBarrierCall.op = "endIndexing" /\ lastBarrierCall.before.indexingBarrier = 0)
       => gate = lastBarrierCall.before
  /\ \A i \in 1..Len(gate.resolved) : gate.resolved[i] <= 1
  /\ gate.indexingBarrier = gate.indexingBarrierResolve
  /\ Unresolved(gate) = IF gate.indexingBarrier # 0 THEN {gate.indexingBarrier} ELSE {}

\* C7 witness: a first barrier was released, a second one acquired, and the
\* last call was a beginIndexing() that found it active.
C7_Witness ==
  /\ lastBarrierCall.op = "beginIndexing"
  /\ lastBarrierCall.before.indexingBarrier = 2
  /\ gate.resolved[1] = 1

\* C8: releasing the barrier wakes all waiters: a reader is blocked only on
\* the promise the gate still holds the resolver of, so none stays blocked
\* once endIndexing() has run, and a reader that was blocked and is no
\* longer has gone on to its query.
C8_ReleaseWakesAll ==
  \A r \in Readers :
    /\ readers[r].pc \in BlockedPcs =>
         (readers[r].awaits # 0 /\ readers[r].awaits = gate.indexingBarrierResolve)
    /\ (readers[r].wasBlocked /\ readers[r].pc \notin BlockedPcs) =>
         readers[r].pc \in {"q2", "q3", "roOpen", "done"}
    /\ lastBarrierCall.op = "endIndexing" => readers[r].pc \notin BlockedPcs

\* C8 witness: two readers were blocked on the first barrier, and the one
\* endIndexing() that released it let both run their queries.
C8_Witness ==
  /\ lastBarrierCall.op = "endIndexing"
  /\ lastBarrierCall.before.indexingBarrier = 1
  /\ gate.created = 1
  /\ \A r \in Readers : readers[r].wasBlocked /\ readers[r].pc = "done"

(***************************************************************************)
(* SpecSeq: reindex() passes one after the other over any set of session   *)
(* files, which the environment rewrites or removes at any moment.         *)
(***************************************************************************)
\* What a session file can hold at the start: a log that does not replay
\* to a session, or one that does, with or without a requests field.
InitialFiles ==
  {NoFile, FileOf(2, FALSE, "s1", 0, 1)}
    \cup {FileOf(2, TRUE, sid, n, 1) : sid \in SessionIds, n \in (-1)..MaxTurns}

InitSeq ==
  /\ InitIndexer
  /\ disk \in [Files -> InitialFiles]

\* reindex() is called once every earlier call has settled.
SeqReindex(c) ==
  /\ \A k \in Calls : k < c => calls[k].pc = "done"
  /\ reindex(c)

\* The file is rewritten in place; its modification time becomes m, which
\* may lie before the old one (clock skew, restored backup).
WriteFile(f, m) ==
  /\ diskEpoch < MaxDiskOps
  /\ disk[f].exists
  /\ m # disk[f].mtime
  /\ disk' = [disk EXCEPT ![f].mtime = m, ![f].rev = @ + 1]
  /\ diskEpoch' = diskEpoch + 1
  /\ UNCHANGED <<callVars, lastBarrierCall, inFlightReindex, calls, passes, db, txOpen, txSnap, gate, readers>>

NextSeq ==
  \/ \E c \in Calls : SeqReindex(c)
  \/ \E p \in Calls : PassNext(p)
  \/ \E f \in Files : Unlink(f)
  \/ \E f \in Files, m \in 1..MaxMtime : WriteFile(f, m)

SpecSeq == InitSeq /\ [][NextSeq]_vars

\* The pass has classified its files and is still running.
Classified(p) ==
  passes[p].pc \in {"parseSessionFile", "yield", "getAllSessionPaths", "deleteSessions"}
                     \cup IndexSessionPcs

ToIndexPaths(ps) == {ps.toIndex[k].filePath : k \in 1..Len(ps.toIndex)}

\* C9: in classification a discovered file is stale, and goes to the
\* re-index list, exactly if it has no recorded modification time or its
\* modification time on disk differs from the recorded one, in either
\* direction.
C9_StaleIffDiffers ==
  \A p \in Calls :
    Classified(p) =>
      \A f \in passes[p].files :
        passes[p].stats[f] # 0 =>
          (f \in ToIndexPaths(passes[p])
             <=> (passes[p].known[f] = 0 \/ passes[p].known[f] # passes[p].stats[f]))

\* Every file of the set replays to a session with a requests field.
AllSessions(files) == \A f \in files : disk[f].parses /\ disk[f].nreq >= 0

\* C10: when two passes ran one after the other and no file changed from
\* the start of the first to the end of the second, the second made no
\* write and reported every file as skipped, indexed = 0 and pruned = 0.
C10_SecondPassIdle ==
  \A p, q \in Calls :
    (/\ q = p + 1
     /\ passes[p].pc = "done" /\ passes[p].ok
     /\ passes[q].pc = "done" /\ passes[q].ok
     /\ passes[p].startEpoch = diskEpoch /\ passes[q].endEpoch = diskEpoch
     /\ AllSessions(passes[q].files))
    => (/\ passes[q].writes = 0
        /\ passes[q].indexed = 0
        /\ passes[q].pruned = 0
        /\ passes[q].skipped = Cardinality(passes[q].files))

(***************************************************************************)
(* SpecReindex: reindex() passes one after the other over session logs     *)
(* that are rewritten (with more or fewer requests) or removed between     *)
(* the passes.  fB, when present, is a second log of session s1.           *)
(***************************************************************************)
InitReindex ==
  /\ InitIndexer
  /\ \E n \in 0..MaxTurns, dup \in BOOLEAN :
       disk = [f \in Files |-> IF f = "fA" THEN FileOf(1, TRUE, "s1", n, 1)
                               ELSE IF dup THEN FileOf(1, TRUE, "s1", 1, 1) ELSE NoFile]

Quiescent == \A p \in Calls : ~Running(passes, p)

\* The log is rewritten: it now holds n requests and is newer.
Rewrite(f, n) ==
  /\ Quiescent
  /\ diskEpoch < MaxDiskOps
  /\ disk[f].exists
  /\ disk[f].mtime < MaxMtime
  /\ disk' = [disk EXCEPT ![f].mtime = @ + 1, ![f].nreq = n, ![f].rev = @ + 1]
  /\ diskEpoch' = diskEpoch + 1
  /\ UNCHANGED <<callVars, lastBarrierCall, inFlightReindex, calls, passes, db, txOpen, txSnap, gate, readers>>

Remove(f) ==
  /\ Quiescent
  /\ Unlink(f)

NextReindex ==
  \/ \E c \in Calls : SeqReindex(c)
  \/ \E p \in Calls : PassNext(p)
  \/ \E f \in Files, n \in 0..MaxTurns : Rewrite(f, n)
  \/ \E f \in Files : Remove(f)

SpecReindex == InitReindex /\ [][NextReindex]_vars

\* The turns a committed write of entry e must leave for its session.
TurnsOfEntry(e) == {TurnRowOf(e.sessionId, i, e.rev) : i \in 0..(e.nreq - 1)}

PruneEnds(p) ==
  /\ passes[p].pc \in PrunePcs
  /\ passes'[p].pc = "done"
  /\ passes'[p].ok

\* C12: when the pruning phase of a pass ends, the index holds no session
\* row whose path is outside the set of files the pass discovered, every
\* row whose path is in that set is kept, the turns of the removed sessions
\* are gone, and the pruned counter is the number of rows removed.
C12_PruneExact ==
  [][\A p \in Calls :
       PruneEnds(p) =>
         LET removed == db.sessions \ db'.sessions IN
         /\ \A r \in db'.sessions : r.file_path \in passes[p].files
         /\ \A r \in db.sessions : r.file_path \in passes[p].files => r \in db'.sessions
         /\ \A t \in db'.turns : \A r \in removed : t.session_id # r.session_id
         /\ passes'[p].pruned = Cardinality(removed)]_vars

(***************************************************************************)
(* SpecFaults: reindex() passes one after the other, where storage may     *)
(* reject any statement: one of a session write (the per-file try/catch    *)
(* of doReindex sees it) or one outside it (the pass rejects).  fB is a    *)
(* valid log or one that does not parse; files are removed between passes. *)
(***************************************************************************)
InitFaults ==
  /\ InitIndexer
  /\ \E ok \in BOOLEAN :
       disk = [f \in Files |-> IF f = "fA" THEN FileOf(2, TRUE, "s1", MaxTurns, 1)
                               ELSE FileOf(2, ok, "s2", 1, 1)]

TxStatementPcs ==
  {"deleteSessionsByFilePath", "upsertSession", "deleteTurnsForSession", "upsertTurn", "commit"}

\* indexSession lines 136-190: the statement awaited is rejected; the catch
\* issues ROLLBACK.
WriteFault(p) ==
  /\ passes[p].pc \in TxStatementPcs
  /\ txOpen
  /\ PassStep(p, [passes[p] EXCEPT !.pc = "rollback"], db, txOpen, txSnap, gate, gate)

\* doReindex lines 38, 41, 102: an operation outside the per-file try/catch
\* is rejected; doReindex rejects (the finally of line 104 releases the
\* barrier of the pruning phase).
SystemicFault(p) ==
  /\ passes[p].pc \in {"discoverSessionFiles", "getAllSessionMtimes"} \cup PrunePcs
  /\ PassSettle(p, passes[p], db,
                IF passes[p].pc \in PrunePcs THEN endIndexing(gate) ELSE gate, FALSE)

NextFaults ==
  \/ \E c \in Calls : SeqReindex(c)
  \/ \E p \in Calls : PassNext(p)
  \/ \E p \in Calls : Rollback(p)
  \/ \E p \in Calls : WriteFault(p)
  \/ \E p \in Calls : SystemicFault(p)
  \/ \E f \in Files : Remove(f)

SpecFaults == InitFaults /\ [][NextFaults]_vars

\* The step in which indexSession of pass p, having failed, is left.
WriteGivenUp(p) == passes[p].pc = "rollback" /\ passes'[p].pc # "rollback"

\* What the entries after entry j that have no requests field add to indexed.
CountedAfter(ps) == NextEntry(ps.parsed, ps.j + 1).inc

\* C13: a session write that fails after its transaction began is rolled
\* back as a whole: every failing statement leads to the ROLLBACK, after
\* which storage is what it was when the transaction began, no transaction
\* is left open, and the caller, told of the failure, does not count the
\* session as indexed.
C13_FailedWriteRolledBack ==
  [][\A p \in Calls :
       /\ (passes[p].pc \in TxStatementPcs /\ passes[p].txStarted)
            => passes'[p].pc \in IndexSessionPcs \cup {"yield"}
       /\ (passes[p].pc \in TxStatementPcs
             /\ passes'[p].pc \in {"beginTransaction", "yield"})
            => (passes[p].pc = "commit" /\ passes'[p].indexed > passes[p].indexed)
       /\ WriteGivenUp(p) =>
            /\ db' = txSnap
            /\ ~txOpen'
            /\ passes'[p].indexed = passes[p].indexed + CountedAfter(passes[p])]_vars

\* C13 witness: the write of fA failed after its session row and a turn
\* were written; it was rolled back, nothing of it is stored, and the pass
\* went on without counting it.
C13_Witness ==
  /\ passes[1].pc \in {"beginTransaction", "yield"}
  /\ passes[1].writes = 4
  /\ passes[1].indexed = 0
  /\ passes[1].parsed # <<>> /\ passes[1].j > 0
  /\ db = EmptyDb /\ ~txOpen

BatchPcs == IndexSessionPcs \cup {"parseSessionFile", "yield"}

\* The entries of the batch that parsed.
ParsedOk(ps) == {k \in 1..Len(ps.parsed) : ps.parsed[k].ok}

\* C14: a parse failure or a write failure of one file does not abort the
\* pass: the pass leaves its batches only for the next batch or the
\* pruning phase; when the write loop of a batch is through, every entry
\* that parsed and whose write did not fail has been counted in indexed,
\* and a file that failed is counted neither there nor in skipped; the pass
\* resolves only out of its pruning phase, with its counters.
C14_FileFailureIsolated ==
  [][\A p \in Calls :
       LET ps == passes[p] IN
       /\ ps.pc \in BatchPcs => passes'[p].pc \in BatchPcs \cup {"getAllSessionPaths"}
       /\ (ps.pc = "yield" /\ ps.i = 0) =>
            /\ Len(ps.parsed) = Len(ps.toIndex)
            /\ ps.failed \subseteq ParsedOk(ps)
            /\ ps.indexed = Cardinality(ParsedOk(ps) \ ps.failed)
            /\ ps.skipped + Len(ps.toIndex) = Cardinality({f \in ps.files : ps.stats[f] # 0})
       /\ (Running(passes, p) /\ passes'[p].pc = "done" /\ passes'[p].ok) =>
            /\ ps.pc \in PrunePcs
            /\ passes'[p].indexed = ps.indexed /\ passes'[p].skipped = ps.skipped
            /\ calls'[p].pc = "done" /\ calls'[p].outcome = OutcomeOf(passes'[p], TRUE)]_vars

\* C14 witness: the pass resolved after fB failed to parse and the write of
\* fA failed: the pruning phase ran and no file is counted.
C14_Witness ==
  /\ passes[1].pc = "done" /\ passes[1].ok
  /\ passes[1].files = Files
  /\ ~disk["fB"].parses /\ disk["fB"].exists /\ disk["fA"].exists
  /\ passes[1].writes \in 1..4
  /\ passes[1].indexed = 0 /\ passes[1].skipped = 0 /\ passes[1].pruned = 0
  /\ calls[1].outcome.ok

\* The step in which pass p rejects.
PassFails(p) == Running(passes, p) /\ passes'[p].pc = "done" /\ ~passes'[p].ok

\* C15: when a pass rejects, every caller awaiting it is told of the
\* failure and the guard is released: inFlightReindex is null afterwards,
\* it never holds a pass that has settled, and a reindex() that finds it
\* null starts a pass of its own.
C15_GuardReleasedOnFailure ==
  [][/\ inFlightReindex # 0 => Running(passes, inFlightReindex)
     /\ \A p \in Calls :
          PassFails(p) =>
            /\ inFlightReindex' = 0
            /\ \A c \in Calls :
                 (calls[c].pc \in {"own", "joined", "wait"} /\ calls[c].awaits = p)
                   => (calls'[c].pc = "done" /\ ~calls'[c].outcome.ok)
     /\ \A c \in Calls :
          (calls[c].kind = "none" /\ calls'[c].kind = "reindex" /\ inFlightReindex = 0)
            => (calls'[c].pc = "own" /\ calls'[c].awaits = c /\ inFlightReindex' = c
                /\ passes'[c].pc = "discoverSessionFiles")]_vars

\* C15 witness: the first pass rejected, its caller was told, and the
\* second reindex() runs a pass of its own.
C15_Witness ==
  /\ passes[1].pc = "done" /\ ~passes[1].ok
  /\ calls[1].pc = "done" /\ ~calls[1].outcome.ok
  /\ calls[2].kind = "reindex" /\ calls[2].pc = "own" /\ calls[2].awaits = 2
  /\ inFlightReindex = 2 /\ Running(passes, 2)

(***************************************************************************)
(* Replay of operation logs: readFullSession is called on a file.          *)
(***************************************************************************)
indexerVars ==
  <<inFlightReindex, calls, passes, disk, diskEpoch, db, txOpen, txSnap, gate, readers,
    lastBarrierCall>>

replayVars == <<indexerVars, search, adhoc, store, annot, batch, tree, quickPick>>

\* An object with the fields given; a field given as Undefined is absent.
Record(kind, k, v, i) ==
  Obj([p \in {"kind"} \cup (IF k = Undefined THEN {} ELSE {"k"})
                      \cup (IF v = Undefined THEN {} ELSE {"v"})
                      \cup (IF i = Undefined THEN {} ELSE {"i"}) |->
         CASE p = "kind" -> Num(kind) [] p = "k" -> k [] p = "v" -> v [] p = "i" -> i])

Snapshot(v) == Record(0, Undefined, v, Undefined)
SetEntry(k, v) == Record(1, k, v, Undefined)
AppendOrTruncate(k, v, i) == Record(2, k, v, i)
DeleteEntry(k) == Record(3, k, Undefined, Undefined)

\* The session of line 0: requests, an object a, and a primitive.
Session0 ==
  Obj([p \in {"sessionId", "requests", "a"} |->
         CASE p = "sessionId" -> Str("s1")
           [] p = "requests" -> Arr([j \in 1..ArrayLen |-> Str(ToString(j))])
           [] p = "a" -> Obj([q \in {"b"} |-> Str("x")])])

\* The session of a compaction: no key of Session0 but sessionId.
Session1 == Obj([p \in {"sessionId", "c"} |-> IF p = "c" THEN Str("y") ELSE Str("s2")])

\* A flat session object of the legacy format.
Legacy == Obj([p \in {"sessionId", "requests"} |-> IF p = "requests" THEN Arr(<<>>) ELSE Str("s3")])

Values2 == Arr(<<Str("z"), Str("w")>>)

SetPaths ==
  {Arr(<<>>), Arr(<<Str("q")>>), Arr(<<Str("a"), Str("b")>>), Arr(<<Str("requests"), Num(0)>>),
   Arr(<<Str("q"), Str("b")>>), Arr(<<Str("sessionId"), Str("b")>>)}

AppendPaths ==
  {Arr(<<>>), Arr(<<Str("q")>>), Arr(<<Str("a")>>), Arr(<<Str("q"), Str("requests")>>)}

DeletePaths ==
  {Arr(<<>>), Arr(<<Str("a")>>), Arr(<<Str("a"), Str("b")>>), Arr(<<Str("requests"), Num(0)>>),
   Arr(<<Str("requests"), Num(1)>>),
   Arr(<<Str("q"), Str("b")>>), Arr(<<Str("sessionId"), Str("b")>>)}

\* Lines that hold no entry of the format: text that is not JSON, null, an
\* unknown kind, a Set without path, entries whose path is a string or a
\* number, a Snapshot whose payload is a string, an AppendOrTruncate whose
\* index is a string.
WrongLines ==
  {Garbage, Text(Null), Text(Record(7, Arr(<<Str("q")>>), Str("z"), Undefined)),
   Text(SetEntry(Undefined, Str("z"))), Text(SetEntry(Str("q"), Str("z"))),
   Text(DeleteEntry(Num(1))), Text(Snapshot(Str("x"))),
   Text(AppendOrTruncate(Arr(<<Str("requests")>>), Values2, Str("0")))}

\* Values a Set writes over the requests of a session.
RequestsValues == {Str("z"), Num(5), Obj(NoProps)}

LogLines ==
  {Text(SetEntry(k, Str("z"))) : k \in SetPaths}
    \cup {Text(SetEntry(Arr(<<Str("requests")>>), v)) : v \in RequestsValues}
    \cup {Text(DeleteEntry(Arr(<<Str("requests")>>)))}
    \cup {Text(AppendOrTruncate(Arr(<<Str("requests")>>), v, i)) :
            v \in {Undefined, Values2}, i \in {Undefined} \cup {Num(n) : n \in 0..MaxIndex}}
    \cup {Text(AppendOrTruncate(k, Values2, Num(0))) : k \in AppendPaths}
    \cup {Text(DeleteEntry(k)) : k \in DeletePaths}
    \cup {Text(Snapshot(Session1))}
    \cup WrongLines
    \cup {BlankLine}

FirstLines ==
  {Text(Snapshot(Session0)), Text(Legacy), Garbage, Text(Null), Text(Snapshot(Str("x"))),
   Text(SetEntry(Arr(<<Str("q")>>), Session1))}

NonEmpty(lines) == SelectSeq(lines, LAMBDA l : ~l.blank)

\* What JSON.parse makes of the whole content: of one line, what it makes
\* of the line; of several lines, a document only if no line is one.
Wholes(lines) ==
  IF Len(NonEmpty(lines)) = 1 THEN {NonEmpty(lines)[1]}
  ELSE IF Len(NonEmpty(lines)) > 1 /\ \A j \in 1..Len(lines) : ~lines[j].parses
    THEN {Garbage, Text(Legacy)}
  ELSE {Garbage}

\* No line: the place of a line that was not written.
NoLine == [written |-> FALSE]

\* What follows line 0 in a log: up to MaxLogLines lines.
Written(t) == SelectSeq(t, LAMBDA l : l # NoLine)

\* Other contents: every kind of line 0, blank lines before it, files
\* without a non-empty line.
OtherContents ==
  {b \o <<f>> \o t : b \in {<<>>, <<BlankLine>>}, f \in FirstLines,
                      t \in {<<>>, <<Garbage>>, <<Text(SetEntry(Arr(<<Str("q")>>), Str("z")))>>}}
    \cup {<<>>, <<BlankLine>>, <<BlankLine, BlankLine>>}

LogOf(c, w) == [readable |-> TRUE, lines |-> c, whole |-> w]

Called(file) == [IdleReplay EXCEPT !.pc = "readAllNonEmptyLines", !.file = file]

InitReplay ==
  /\ IndexerIdle
  /\ search = IdleSearch
  /\ adhoc = IdleQuery
  /\ store = IdleStore
  /\ annot = IdleAnnotations
  /\ batch = IdleBatch
  /\ tree = IdleTree
  /\ quickPick = IdleQuickPick
  /\ disk = [f \in Files |-> NoFile]
  /\ \/ replay = Called(NoLog)
     \/ \E c \in OtherContents : \E w \in Wholes(c) : replay = Called(LogOf(c, w))
     \/ \E t \in [1..MaxLogLines -> LogLines \cup {NoLine}] :
          \E w \in Wholes(<<Text(Snapshot(Session0))>> \o Written(t)) :
            replay = Called(LogOf(<<Text(Snapshot(Session0))>> \o Written(t), w))

\* Lines 229-238: the file has been read (or could not be).
ReadLines ==
  /\ replay.pc = "readAllNonEmptyLines"
  /\ replay' =
       IF ~replay.file.readable THEN [replay EXCEPT !.pc = "done", !.result = Null]
       ELSE IF Len(readAllNonEmptyLines(replay.file)) = 0
         THEN [replay EXCEPT !.pc = "done", !.result = Null]
       ELSE [replay EXCEPT !.pc = "first", !.lines = readAllNonEmptyLines(replay.file)]
  /\ UNCHANGED replayVars

\* Lines 241-257: line 0 is parsed; if JSON.parse throws, the whole file is
\* tried as one legacy document.
ParseFirst ==
  /\ replay.pc = "first"
  /\ LET first == JSONparse(replay.lines[1])
         whole == JSONparse(replay.file.whole)
     IN replay' =
          IF first.threw
            THEN [replay EXCEPT !.pc = "done",
                                !.result = IF whole.threw THEN Null
                                           ELSE unwrapOperationLog(whole.value)]
          ELSE IF unwrapOperationLog(first.value) = Null
            THEN [replay EXCEPT !.pc = "done", !.result = Null]
          ELSE [replay EXCEPT !.pc = "loop", !.i = 1,
                              !.state = unwrapOperationLog(first.value),
                              !.prev = unwrapOperationLog(first.value)]
  /\ UNCHANGED replayVars

\* Lines 260-267: one turn of the loop; what JSON.parse or applyMutation
\* throws is caught.
ApplyLine ==
  /\ replay.pc = "loop"
  /\ replay.i < Len(replay.lines)
  /\ LET entry == JSONparse(replay.lines[replay.i + 1])
     IN replay' = [replay EXCEPT !.i = @ + 1, !.prev = replay.state,
                                 !.state = IF entry.threw THEN @
                                           ELSE applyMutation(@, entry.value).state]
  /\ UNCHANGED replayVars

\* Line 269
Return ==
  /\ replay.pc = "loop"
  /\ replay.i = Len(replay.lines)
  /\ replay' = [replay EXCEPT !.pc = "done", !.result = replay.state]
  /\ UNCHANGED replayVars

\* parseSessionFile, lines 174-222: readFullSession has answered and the
\* summary is built.
Summarize ==
  /\ replay.pc = "done"
  /\ replay' = [replay EXCEPT !.pc = "parsed", !.summary = summaryOf(replay.result)]
  /\ UNCHANGED replayVars

\* doReindex, indexer.ts lines 73-87: a file that parsed to a summary is
\* handed to indexSession with the data replayed.
IndexParsed ==
  /\ replay.pc = "parsed"
  /\ replay.summary.kind = "summary"
  /\ replay' = [replay EXCEPT !.pc = "indexed", !.write = writeOf(replay.result)]
  /\ UNCHANGED replayVars

NextReplay ==
  \/ ReadLines
  \/ ParseFirst
  \/ ApplyLine
  \/ Return
  \/ Summarize
  \/ IndexParsed

SpecReplay == InitReplay /\ [][NextReplay]_vars

(***************************************************************************)
(* Replay in file order (jsonlReader.ts lines 228-270, 275-331)            *)
(***************************************************************************)
\* A path of the format: a sequence of string and integer keys.
IsPath(k) == k.t = "array" /\ \A j \in 1..Len(k.a) : k.a[j].t \in {"string", "number"}

\* The line holds a Set, AppendOrTruncate or Delete entry of the format:
\* {kind:1, k:[...], v}, {kind:2, k:[...], v?:[...], i?:number} or
\* {kind:3, k:[...]}.
IsMutation(l) ==
  /\ l.parses
  /\ l.json.t = "object"
  /\ \/ Field(l.json, "kind") = Num(1) /\ IsPath(Field(l.json, "k")) /\ HasProperty(l.json, "v")
     \/ /\ Field(l.json, "kind") = Num(2)
        /\ IsPath(Field(l.json, "k"))
        /\ Field(l.json, "v").t \in {"undefined", "array"}
        /\ Field(l.json, "i").t \in {"undefined", "number"}
     \/ Field(l.json, "kind") = Num(3) /\ IsPath(Field(l.json, "k"))

\* The line holds a Snapshot entry: {kind:0, v: <session object>}.
IsSnapshot(l) ==
  /\ l.parses
  /\ l.json.t = "object"
  /\ Field(l.json, "kind") = Num(0)
  /\ Field(l.json, "v").t = "object"

\* The mutations among lines applied to s, one after the other.
RECURSIVE Replayed(_, _)
Replayed(s, lines) ==
  IF lines = <<>> THEN s
  ELSE Replayed(IF IsMutation(Head(lines)) THEN applyMutation(s, Head(lines).json).state ELSE s,
                Tail(lines))

\* The lines after line 0 that the loop has handled.
Handled == SubSeq(replay.lines, 2, replay.i)

\* C16: when line 0 of a log is a snapshot and no later line is one, the
\* state after every turn of the loop, and the state readFullSession
\* returns, is the payload of line 0 with the Set, AppendOrTruncate and
\* Delete lines handled so far applied in file order, each once; a line
\* that holds no such mutation has changed nothing and has not stopped the
\* loop.
C16_ReplayInFileOrder ==
  (/\ replay.pc \in {"loop", "done"}
   /\ replay.i >= 1
   /\ IsSnapshot(replay.lines[1])
   /\ \A j \in 2..replay.i : ~IsSnapshot(replay.lines[j]))
    => /\ replay.state = Replayed(Field(replay.lines[1].json, "v"), Handled)
       /\ replay.pc = "done" => replay.result = replay.state /\ replay.i = Len(replay.lines)

(***************************************************************************)
(* Empty logs and logs of one snapshot (jsonlReader.ts lines 228-257)      *)
(***************************************************************************)
\* C17: readFullSession on a file that can be read and has no non-empty
\* line returns null (no session); on a file whose only non-empty line is
\* a Snapshot {kind:0, v}, v a session object, it returns a state equal to
\* v.
C17_EmptyLogAndSnapshotOnly ==
  (replay.pc = "done" /\ replay.file.readable)
    => /\ NonEmpty(replay.file.lines) = <<>> => replay.result = Null
       /\ (Len(NonEmpty(replay.file.lines)) = 1 /\ IsSnapshot(NonEmpty(replay.file.lines)[1]))
            => replay.result = Field(NonEmpty(replay.file.lines)[1].json, "v")

\* A file of a blank line and a snapshot has been replayed.
C17_Witness ==
  /\ replay.pc = "done"
  /\ replay.file.lines = <<BlankLine, Text(Snapshot(Session0))>>
  /\ replay.result = Session0

(***************************************************************************)
(* Truncate, then append (jsonlReader.ts lines 302-315)                    *)
(***************************************************************************)
\* The line the loop handled last, once it has handled one.
LastLine == replay.lines[replay.i]
LastEntry == LastLine.json
LoopRan == replay.pc \in {"loop", "done"} /\ replay.i >= 2

\* The values an AppendOrTruncate entry carries: none if it has no v.
ValuesOf(e) == IF Field(e, "v").t = "array" THEN Field(e, "v").a ELSE <<>>

\* C18: an AppendOrTruncate mutation with truncation index i >= 0 and
\* values v, whose path leads to an array A, leaves at that path the first
\* min(i, |A|) elements of A followed by the values of v in order, for
\* every i >= 0 including 0.
C18_TruncateThenAppend ==
  (/\ LoopRan
   /\ IsMutation(LastLine)
   /\ Field(LastEntry, "kind") = Num(2)
   /\ Field(LastEntry, "i").t = "number"
   /\ Field(LastEntry, "i").n >= 0
   /\ traversePath(replay.prev, Field(LastEntry, "k").a).t = "array")
    => LET A == traversePath(replay.prev, Field(LastEntry, "k").a).a
           n == Field(LastEntry, "i").n
       IN traversePath(replay.state, Field(LastEntry, "k").a)
            = Arr(SubSeq(A, 1, Min(n, Len(A))) \o ValuesOf(LastEntry))

\* Index 0 and two values on an array of length 5 (ArrayLen) have left
\* exactly the two values, in order.
C18_Witness ==
  /\ LoopRan
  /\ LastLine = Text(AppendOrTruncate(Arr(<<Str("requests")>>), Values2, Num(0)))
  /\ Len(Field(replay.prev, "requests").a) = ArrayLen
  /\ Field(replay.state, "requests") = Arr(<<Str("z"), Str("w")>>)

(***************************************************************************)
(* Compaction (jsonlReader.ts lines 279-289)                               *)
(***************************************************************************)
\* C19: a Snapshot entry on a line after line 0 replaces the contents of
\* the state: once applied, the state equals the payload of that snapshot,
\* and no key that only the earlier state had (a key of line 0 or one an
\* earlier mutation added) is left.
C19_SnapshotReplaces ==
  (LoopRan /\ IsSnapshot(LastLine))
    => /\ replay.state = Field(LastEntry, "v")
       /\ \A p \in DOMAIN replay.prev.f \ DOMAIN Field(LastEntry, "v").f :
            ~HasProperty(replay.state, p)

\* Line 0 is a snapshot, line 1 has added the key q, line 2 is a snapshot
\* without the keys q, requests and a.
C19_Witness ==
  /\ LoopRan
  /\ replay.i = 3
  /\ LastLine = Text(Snapshot(Session1))
  /\ {"q", "requests", "a"} \subseteq DOMAIN replay.prev.f
  /\ replay.state = Session1

(***************************************************************************)
(* Paths that lead nowhere (jsonlReader.ts lines 291-331, 336-345)         *)
(***************************************************************************)
\* Every segment of path leads to an object or an array of s.
RECURSIVE Resolves(_, _)
Resolves(s, path) ==
  /\ IsObject(s)
  /\ path # <<>> => Resolves(GetProperty(s, Head(path)), Tail(path))

\* The line holds a Set, AppendOrTruncate or Delete whose path is empty or
\* has intermediate segments (all but the last) that do not lead to an
\* object or array of s.
LeadsNowhere(s, l) ==
  /\ IsMutation(l)
  /\ LET K == Field(l.json, "k").a
     IN K = <<>> \/ ~Resolves(s, SubSeq(K, 1, Len(K) - 1))

\* C20: a Set, AppendOrTruncate or Delete whose path has length 0, or whose
\* intermediate segments do not resolve to an existing object or array,
\* leaves the whole state as it was; and the mutation on the line after it
\* is applied: a log of a snapshot, such a line and one more mutation
\* replays to the snapshot with that last mutation applied.
C20_UnresolvedPathNoOp ==
  /\ (LoopRan /\ LeadsNowhere(replay.prev, LastLine)) => replay.state = replay.prev
  /\ (/\ replay.pc = "done"
      /\ Len(replay.lines) = 3
      /\ IsSnapshot(replay.lines[1])
      /\ LeadsNowhere(Field(replay.lines[1].json, "v"), replay.lines[2])
      /\ IsMutation(replay.lines[3]))
       => replay.result
            = applyMutation(Field(replay.lines[1].json, "v"), replay.lines[3].json).state

\* A Set through the missing key q was a no-op and the Delete after it has
\* removed a.b.
C20_Witness ==
  /\ replay.pc = "done"
  /\ replay.lines = <<Text(Snapshot(Session0)),
                      Text(SetEntry(Arr(<<Str("q"), Str("b")>>), Str("z"))),
                      Text(DeleteEntry(Arr(<<Str("a"), Str("b")>>)))>>
  /\ ~HasProperty(replay.result, "q")
  /\ Field(replay.result, "a") = Obj(NoProps)

(***************************************************************************)
(* Delete (jsonlReader.ts lines 317-330)                                   *)
(***************************************************************************)
\* The path of the entry handled last, without its last key, and that key.
LastParentPath == SubSeq(Field(LastEntry, "k").a, 1, Len(Field(LastEntry, "k").a) - 1)
LastKey == Field(LastEntry, "k").a[Len(Field(LastEntry, "k").a)]

\* The line handled last is a Delete whose path leads to a key of an object
\* or array of the state before it.
DeleteApplies ==
  /\ LoopRan
  /\ IsMutation(LastLine)
  /\ Field(LastEntry, "kind") = Num(3)
  /\ Field(LastEntry, "k").a # <<>>
  /\ IsObject(traversePath(replay.prev, LastParentPath))

\* Outside the object or array the path leads to, the state is as before.
RestUnchanged ==
  IF LastParentPath = <<>> THEN TRUE
  ELSE /\ DOMAIN replay.state.f = DOMAIN replay.prev.f
       /\ \A p \in DOMAIN replay.prev.f \ {PropertyName(Head(LastParentPath))} :
            replay.state.f[p] = replay.prev.f[p]

\* C21: a Delete whose last key is an integer index inside an array removes
\* that element, the elements after it moving up in their order (the array
\* is one shorter); a Delete whose last key names a property of an object
\* removes that property and nothing else.
C21_DeleteRemoves ==
  DeleteApplies =>
    LET old == traversePath(replay.prev, LastParentPath)
        new == traversePath(replay.state, LastParentPath)
    IN /\ (old.t = "array" /\ LastKey.t = "number" /\ LastKey.n >= 0 /\ LastKey.n < Len(old.a))
            => /\ new.t = "array"
               /\ Len(new.a) = Len(old.a) - 1
               /\ \A j \in 1..Len(new.a) :
                    new.a[j] = IF j <= LastKey.n THEN old.a[j] ELSE old.a[j + 1]
               /\ RestUnchanged
       /\ (old.t = "object" /\ HasProperty(old, PropertyName(LastKey)))
            => /\ new.t = "object"
               /\ DOMAIN new.f = DOMAIN old.f \ {PropertyName(LastKey)}
               /\ \A p \in DOMAIN new.f : new.f[p] = old.f[p]
               /\ RestUnchanged

\* The second of ArrayLen requests has been deleted.
C21_Witness ==
  /\ DeleteApplies
  /\ LastLine = Text(DeleteEntry(Arr(<<Str("requests"), Num(1)>>)))
  /\ Len(Field(replay.prev, "requests").a) = ArrayLen
  /\ Len(Field(replay.state, "requests").a) = ArrayLen - 1
  /\ Field(replay.state, "requests").a[2] = Field(replay.prev, "requests").a[3]

(***************************************************************************)
(* The requests field (jsonlReader.ts lines 170-222, indexer.ts 126-147)   *)
(***************************************************************************)
\* The replayed session has a requests field that is not an array.
RequestsNotArray ==
  /\ replay.pc \in {"parsed", "indexed"}
  /\ IsObject(replay.result)
  /\ HasProperty(replay.result, "requests")
  /\ Field(replay.result, "requests").t # "array"

\* C22: when the replayed requests field is present but is not an array,
\* the session is treated as one without requests: parseSessionFile does
\* not throw and counts no request, and indexSession, if it is called,
\* does not throw and writes no turn.
C22_RequestsValidated ==
  RequestsNotArray
    => /\ replay.summary.kind # "threw"
       /\ replay.summary.requestCount = 0
       /\ replay.pc = "indexed" => ~replay.write.threw /\ replay.write.turns = 0

(***************************************************************************)
(* Full-text search: search() is called with a query string.               *)
(***************************************************************************)
QueryChars == {" ", "o", "R", "a", "n", "D", "\""}

searchVars == <<indexerVars, replay, adhoc, store, annot, batch, tree, quickPick>>

InitSearch ==
  /\ IndexerIdle
  /\ disk = [f \in Files |-> NoFile]
  /\ replay = IdleReplay
  /\ adhoc = IdleQuery
  /\ store = IdleStore
  /\ annot = IdleAnnotations
  /\ batch = IdleBatch
  /\ tree = IdleTree
  /\ quickPick = IdleQuickPick
  /\ \E n \in 0..MaxQueryLen : \E q \in [1..n -> QueryChars] :
       search = [IdleSearch EXCEPT !.pc = "called", !.query = q]

\* Lines 437-446: no barrier is up; a blank query returns [], any other is
\* split and its terms are mapped.
Tokenize ==
  /\ search.pc = "called"
  /\ search' = IF trim(search.query) = <<>> THEN [search EXCEPT !.pc = "done"]
               ELSE [search EXCEPT !.pc = "tokens",
                                   !.tokens = [j \in 1..Len(split(trim(search.query))) |->
                                                 tokenOf(split(trim(search.query))[j])]]
  /\ UNCHANGED searchVars

\* Lines 448-451: operators at both ends are dropped; an empty expression
\* returns [].
StripOperators ==
  /\ search.pc = "tokens"
  /\ LET kept == popOperators(shiftOperators(search.tokens))
     IN search' = IF join(kept) = <<>> THEN [search EXCEPT !.pc = "done", !.tokens = kept]
                  ELSE [search EXCEPT !.pc = "match", !.tokens = kept, !.ftsQuery = join(kept),
                                      !.executed = TRUE]
  /\ UNCHANGED searchVars

\* Lines 467-500: the statement has answered, with rows or with an error of
\* the engine.
Match ==
  /\ search.pc = "match"
  /\ \E ok \in BOOLEAN : search' = [search EXCEPT !.pc = "done", !.failed = ~ok]
  /\ UNCHANGED searchVars

NextSearch ==
  \/ Tokenize
  \/ StripOperators
  \/ Match

SpecSearch == InitSearch /\ [][NextSearch]_vars

\* The query cut at whitespace, read off the string itself: the maximal
\* runs of characters that are not whitespace.
RunStarts(q) == {j \in 1..Len(q) : ~IsSpace(q[j]) /\ (j = 1 \/ IsSpace(q[j - 1]))}

RunFrom(q, j) ==
  SubSeq(q, j, CHOOSE e \in j..Len(q) :
                 /\ \A x \in j..e : ~IsSpace(q[x])
                 /\ (e = Len(q) \/ IsSpace(q[e + 1])))

IsOperatorWord(w) == toUpperCase(w) \in FTS_OPERATORS

IsQuotedPrefix(tok) ==
  /\ Len(tok) >= 3
  /\ tok[1] = "\"" /\ tok[Len(tok) - 1] = "\"" /\ tok[Len(tok)] = "*"

OnlyOperatorsOrSpace(q) == \A j \in RunStarts(q) : IsOperatorWord(RunFrom(q, j))

\* C23: search() cuts the query at whitespace, keeps operator words (OR, NOT,
\* AND in any letter case) upper-cased and turns every other word into a
\* quoted prefix term; once the operators at both ends are dropped the match
\* expression neither begins nor ends with an operator, and a query made only
\* of operators or whitespace returns the empty list without a MATCH being
\* executed and without an error.
C23_MatchExpression ==
  /\ search.pc = "tokens" =>
       /\ Len(search.tokens) = Cardinality(RunStarts(search.query))
       /\ \A j \in RunStarts(search.query) :
            LET w == RunFrom(search.query, j)
                tok == search.tokens[Cardinality({x \in RunStarts(search.query) : x <= j})]
            IN IF IsOperatorWord(w) THEN tok = toUpperCase(w)
               ELSE IsQuotedPrefix(tok) /\ tok \notin FTS_OPERATORS
  /\ search.pc \in {"match", "done"} /\ search.tokens # <<>> =>
       /\ search.tokens[1] \notin FTS_OPERATORS
       /\ search.tokens[Len(search.tokens)] \notin FTS_OPERATORS
  /\ search.executed =>
       /\ search.ftsQuery = join(search.tokens)
       /\ search.ftsQuery # <<>>
       /\ \A op \in FTS_OPERATORS :
            /\ SubSeq(search.ftsQuery, 1, Len(op) + 1) # op \o <<" ">>
            /\ SubSeq(search.ftsQuery, Len(search.ftsQuery) - Len(op), Len(search.ftsQuery))
                 # <<" ">> \o op
            /\ search.ftsQuery # op
  /\ search.pc \in {"match", "done"} /\ OnlyOperatorsOrSpace(search.query) =>
       /\ ~search.executed
       /\ search.pc = "done"
       /\ search.rows = <<>>
       /\ ~search.failed

\* A query with an operator at each end and a term between has been matched,
\* and a query of operators alone has returned.
C23_Witness ==
  \/ /\ search.pc = "done" /\ search.executed
     /\ Len(split(trim(search.query))) = 3
     /\ IsOperatorWord(split(trim(search.query))[1])
     /\ IsOperatorWord(split(trim(search.query))[3])
     /\ Len(search.tokens) = 1
  \/ /\ search.pc = "done" /\ ~search.executed
     /\ search.query = <<"o", "R", " ", "o", "R">>

(***************************************************************************)
(* Ad-hoc read: queryReadOnly is called with a statement while the         *)
(* database is open and no barrier is up.                                  *)
(***************************************************************************)
Lexemes == {"SELECT", "select", "WITH", "RECURSIVE", "recursive", "DELETE", "x", " ", "("}

\* Sizes of a statement's own result, around the cap.
TrueRowCounts ==
  {0, 1, MAX_QUERY_ROWS - 1, MAX_QUERY_ROWS, MAX_QUERY_ROWS + 1, MAX_QUERY_ROWS + 2}

IndexContents ==
  {EmptyDb,
   upsertTurn(upsertSession(EmptyDb, [sessionId |-> "s1", filePath |-> "f1", mtime |-> 1,
                                      nreq |-> 1]), "s1", 0, 1)}

queryVars == <<indexerVars, replay, search, store, annot, batch, tree, quickPick>>

InitQuery ==
  /\ inFlightReindex = 0
  /\ calls = [c \in Calls |-> NoCall]
  /\ passes = [c \in Calls |-> NoPass]
  /\ diskEpoch = 0
  /\ db \in IndexContents
  /\ txOpen = FALSE
  /\ txSnap = EmptyDb
  /\ gate = NoGate
  /\ readers = [r \in Readers |-> IdleReader]
  /\ lastBarrierCall = [op |-> "none", before |-> NoGate]
  /\ disk = [f \in Files |-> NoFile]
  /\ replay = IdleReplay
  /\ search = IdleSearch
  /\ store = IdleStore
  /\ annot = IdleAnnotations
  /\ batch = IdleBatch
  /\ tree = IdleTree
  /\ quickPick = IdleQuickPick
  /\ \E n \in 0..MaxLexemes : \E t \in [1..n -> Lexemes] :
       adhoc = [IdleQuery EXCEPT !.pc = "called", !.sql = t, !.indexAtCall = db]

\* Lines 524-531: the two patterns are tried on the trimmed statement.
QueryValidate ==
  /\ adhoc.pc = "called"
  /\ adhoc' = IF ~beginsReadOnly(trim(adhoc.sql))
                THEN [adhoc EXCEPT !.pc = "done", !.error = "Only SELECT statements are allowed"]
              ELSE IF hasRecursive(trim(adhoc.sql))
                THEN [adhoc EXCEPT !.pc = "done", !.error = "Recursive CTEs are not supported"]
              ELSE [adhoc EXCEPT !.pc = "open"]
  /\ UNCHANGED queryVars

\* Lines 536-537: the read-only connection is there, or is not.
QueryOpen ==
  /\ adhoc.pc = "open"
  /\ \E ok \in BOOLEAN :
       adhoc' = IF ok THEN [adhoc EXCEPT !.pc = "all", !.opened = TRUE, !.executed = @ + 1]
                ELSE [adhoc EXCEPT !.pc = "done", !.error = "SQLITE_CANTOPEN"]
  /\ UNCHANGED queryVars

\* Lines 538-543: the wrapped statement has answered: with an error of the
\* engine, or with at most MAX_QUERY_ROWS + 1 rows of the r the statement has.
QueryAll ==
  /\ adhoc.pc = "all"
  /\ \/ adhoc' = [adhoc EXCEPT !.pc = "done", !.error = "SQLITE_ERROR"]
     \/ \E r \in TrueRowCounts :
          LET all == limitedRows(r, MAX_QUERY_ROWS + 1)
          IN adhoc' = [adhoc EXCEPT !.pc = "done", !.trueRows = r,
                                    !.rows = resultOf(all).rows,
                                    !.truncated = resultOf(all).truncated]
  /\ UNCHANGED queryVars

NextQuery ==
  \/ QueryValidate
  \/ QueryOpen
  \/ QueryAll

SpecQuery == InitQuery /\ [][NextQuery]_vars

\* The words of a statement: its maximal runs of word lexemes.
WordStarts(t) == {j \in 1..Len(t) : IsWordLexeme(t[j]) /\ (j = 1 \/ ~IsWordLexeme(t[j - 1]))}

WordFrom(t, j) ==
  SubSeq(t, j, CHOOSE e \in j..Len(t) :
                 /\ \A x \in j..e : IsWordLexeme(t[x])
                 /\ (e = Len(t) \/ ~IsWordLexeme(t[e + 1])))

IsKeyword(w, kws) == Len(w) = 1 /\ UpperLexeme(w[1]) \in kws

\* The statement, leading whitespace aside, starts with the word SELECT or WITH.
BeginsWithReadOnlyKeyword(t) ==
  \E j \in WordStarts(t) :
    /\ \A x \in 1..(j - 1) : IsSpace(t[x])
    /\ IsKeyword(WordFrom(t, j), {"SELECT", "WITH"})

ContainsRecursiveKeyword(t) ==
  \E j \in WordStarts(t) : IsKeyword(WordFrom(t, j), {"RECURSIVE"})

\* C24: queryReadOnly rejects every statement that does not begin with SELECT
\* or WITH and every statement that contains the keyword RECURSIVE, before
\* any statement is executed on any connection and with the index as it was.
C24_RejectedBeforeExecution ==
  adhoc.pc \notin {"idle", "called"}
    /\ (~BeginsWithReadOnlyKeyword(adhoc.sql) \/ ContainsRecursiveKeyword(adhoc.sql)) =>
      /\ adhoc.pc = "done"
      /\ adhoc.error \in {"Only SELECT statements are allowed", "Recursive CTEs are not supported"}
      /\ ~adhoc.opened
      /\ adhoc.executed = 0
      /\ adhoc.rows = <<>>
      /\ db = adhoc.indexAtCall

\* DELETE x (as in DELETE FROM sessions) has been rejected on an index that
\* holds a session.
C24_Witness ==
  /\ adhoc.pc = "done"
  /\ adhoc.sql = <<"DELETE", " ", "x">>
  /\ adhoc.error = "Only SELECT statements are allowed"
  /\ db.sessions # {}

\* C25: for an accepted statement whose own result has r rows, queryReadOnly
\* returns the first min(r, MAX_QUERY_ROWS) of them, and truncated is true
\* exactly when r > MAX_QUERY_ROWS.
C25_RowCap ==
  adhoc.pc = "done" /\ adhoc.error = "" =>
    /\ Len(adhoc.rows) = Min(adhoc.trueRows, MAX_QUERY_ROWS)
    /\ \A j \in 1..Len(adhoc.rows) : adhoc.rows[j] = j
    /\ adhoc.truncated = (adhoc.trueRows > MAX_QUERY_ROWS)

\* A statement with exactly MAX_QUERY_ROWS rows has returned them all.
C25_Witness ==
  /\ adhoc.pc = "done" /\ adhoc.error = ""
  /\ adhoc.trueRows = MAX_QUERY_ROWS
  /\ Len(adhoc.rows) = MAX_QUERY_ROWS
  /\ ~adhoc.truncated

(***************************************************************************)
(* The tables: a database file written by some version of the extension is *)
(* opened, and the storage operations are called one after the other.      *)
(***************************************************************************)
FilePaths == {"f1", "f2"}

TurnIndexes == 0..(MaxTurns - 1)

\* Two sets of column values of a turn.
TurnColumns ==
  {[prompt_text |-> "p1", response_text |-> "r1", agent |-> "a1", model |-> "m1", rest |-> 1],
   [prompt_text |-> "p2", response_text |-> "r1", agent |-> "a1", model |-> "m2", rest |-> 2]}

\* A file that holds one session with one annotated turn.
OneTurn ==
  LET cols == CHOOSE c \in TurnColumns : c.rest = 1
      row == NewTurnRow(1, "s1", 0, cols)
  IN [NoTables EXCEPT !.tables = TRUE,
                      !.sessions = {[session_id |-> "s1", file_path |-> "f1", rest |-> 1]},
                      !.turns = {row},
                      !.annotations = {[id |-> 1, turn_id |-> 1]},
                      !.turns_fts = SetToBag({FtsEntry(row)})]

\* The files an extension of version 0..MaxVersion leaves behind, and the
\* file that does not exist yet.
StoredFiles ==
  {NoTables} \cup
  {[c EXCEPT !.meta = {[key |-> "schema_version", value |-> String(v)]}] :
     c \in {[NoTables EXCEPT !.tables = TRUE], OneTurn}, v \in 1..MaxVersion}

tableVars == <<indexerVars, replay, search, adhoc, annot, batch, tree, quickPick>>

InitTables ==
  /\ IndexerIdle
  /\ disk = [f \in Files |-> NoFile]
  /\ replay = IdleReplay
  /\ search = IdleSearch
  /\ adhoc = IdleQuery
  /\ annot = IdleAnnotations
  /\ batch = IdleBatch
  /\ tree = IdleTree
  /\ quickPick = IdleQuickPick
  /\ \E f \in StoredFiles : store = [IdleStore EXCEPT !.file = f]

Ready == store.isOpen /\ store.pc = "idle" /\ store.ops < MaxTableOps

\* open(): lines 26-33 and initialize; the connection is fresh.
Open ==
  /\ ~store.isOpen
  /\ store.opens < MaxOpens
  /\ store' = [store EXCEPT !.isOpen = TRUE, !.op = "open", !.opens = @ + 1, !.atOpen = store.file,
                            !.file = [initialize(store.file) EXCEPT !.lastID = 0]]
  /\ UNCHANGED tableVars

\* close(): lines 35-43
Close ==
  /\ store.isOpen /\ store.pc = "idle"
  /\ store' = [store EXCEPT !.isOpen = FALSE, !.op = "close"]
  /\ UNCHANGED tableVars

\* wipeData(): lines 102-105
WipeData ==
  /\ Ready
  /\ store' = [store EXCEPT !.ops = @ + 1, !.op = "wipeData", !.before = store.file, !.file = createTables(dropTables(@))]
  /\ UNCHANGED tableVars

StoreUpsertSession ==
  /\ Ready
  /\ \E sid \in SessionIds, p \in FilePaths :
       store' = [store EXCEPT !.ops = @ + 1, !.op = "upsertSession", !.before = store.file, !.file = insertSession(@, sid, p, 1)]
  /\ UNCHANGED tableVars

\* upsertTurn, lines 322-342: the statement; it fails on a session that is
\* not there (foreign key).
StoreUpsertTurn ==
  /\ Ready
  /\ \E sid \in SessionIds, i \in TurnIndexes, cols \in TurnColumns :
       store' = IF \E r \in store.file.sessions : r.session_id = sid
                THEN [store EXCEPT !.ops = @ + 1, !.op = "upsertTurn", !.pc = "get",
                                   !.key = [sid |-> sid, i |-> i], !.cols = cols,
                                   !.before = store.file, !.failed = FALSE,
                                   !.file = insertTurn(@, sid, i, cols)]
                ELSE [store EXCEPT !.ops = @ + 1, !.op = "upsertTurn",
                                   !.key = [sid |-> sid, i |-> i], !.cols = cols,
                                   !.before = store.file, !.failed = TRUE, !.returned = 0]
  /\ UNCHANGED tableVars

\* upsertTurn, lines 343-349: the id is looked up and returned.
StoreTurnId ==
  /\ store.pc = "get"
  /\ store' = [store EXCEPT !.pc = "idle",
                            !.returned = turnIdOf(store.file, store.key.sid, store.key.i)]
  /\ UNCHANGED tableVars

\* deleteTurnsForSession: lines 378-380
StoreDeleteTurns ==
  /\ Ready
  /\ \E sid \in SessionIds :
       store' = [store EXCEPT !.ops = @ + 1, !.op = "deleteTurnsForSession", !.before = store.file,
                   !.file = deleteTurnRows(@, {r \in store.file.turns : r.session_id = sid})]
  /\ UNCHANGED tableVars

\* deleteSessions: lines 279-283
StoreDeleteSessions ==
  /\ Ready
  /\ \E ids \in SUBSET SessionIds :
       store' = [store EXCEPT !.ops = @ + 1, !.op = "deleteSessions", !.before = store.file,
                   !.file = deleteSessionRows(@, {r \in store.file.sessions : r.session_id \in ids})]
  /\ UNCHANGED tableVars

\* deleteSessionsByFilePath: lines 285-291; "" is no exceptSessionId.
StoreDeleteByPath ==
  /\ Ready
  /\ \E p \in FilePaths, except \in SessionIds \cup {""} :
       store' = [store EXCEPT !.ops = @ + 1, !.op = "deleteSessionsByFilePath", !.before = store.file,
                   !.file = deleteSessionRows(@, {r \in store.file.sessions :
                              r.file_path = p /\ (except = "" \/ r.session_id # except)})]
  /\ UNCHANGED tableVars

NextTables ==
  \/ Open
  \/ Close
  \/ WipeData
  \/ StoreUpsertSession
  \/ StoreUpsertTurn
  \/ StoreTurnId
  \/ StoreDeleteTurns
  \/ StoreDeleteSessions
  \/ StoreDeleteByPath

SpecTables == InitTables /\ [][NextTables]_vars

\* The upsertTurn call that has just returned an id.
UpsertReturned == store.op = "upsertTurn" /\ store.pc = "idle" /\ ~store.failed

\* C26: there is at most one turn row per (sessionId, turnIndex); upsertTurn
\* on an existing key replaces all its columns and keeps its row id, and on
\* the insert path and on the update path alike the id it returns is the id
\* of the row that now holds the key.
C26_UpsertTurn ==
  /\ \A r1, r2 \in store.file.turns :
       (r1.session_id = r2.session_id /\ r1.turn_index = r2.turn_index) \/ r1.id = r2.id => r1 = r2
  /\ UpsertReturned =>
       LET now == TurnRowAt(store.file, store.key.sid, store.key.i)
           was == TurnRowAt(store.before, store.key.sid, store.key.i)
       IN /\ now = {NewTurnRow(store.returned, store.key.sid, store.key.i, store.cols)}
          /\ was # {} => \A r \in was : r.id = store.returned
          /\ was = {} => \A r \in store.before.turns : r.id # store.returned
          /\ store.file.turns \ now = store.before.turns \ was

\* upsertTurn has replaced the columns of a row written on an earlier
\* connection and returned that row's id.
C26_Witness ==
  /\ UpsertReturned
  /\ \E r \in TurnRowAt(store.before, store.key.sid, store.key.i) :
       /\ r.id = store.returned
       /\ r.prompt_text # store.cols.prompt_text
  /\ store.file.lastID # store.returned

\* C27: the full-text index holds exactly one entry per row of turns, with the
\* row's prompt text, response text, agent and model, and no entry of a turn
\* that was deleted, by a statement on turns or by cascade from its session.
C27_FtsLockstep ==
  /\ BagToSet(store.file.turns_fts) = {FtsEntry(r) : r \in store.file.turns}
  /\ \A e \in BagToSet(store.file.turns_fts) : CopiesIn(e, store.file.turns_fts) = 1

\* A session was deleted with its turn while the turn of another session
\* stayed, entry and all.
C27_Witness ==
  /\ store.op \in {"deleteSessions", "deleteSessionsByFilePath"}
  /\ \E r \in store.before.turns : r \notin store.file.turns
  /\ store.file.turns # {}
  /\ C27_FtsLockstep

MarkerOf(t) == IF t.meta = {} THEN <<>> ELSE (CHOOSE row \in t.meta : TRUE).value

DataOf(t) == <<t.sessions, t.turns, t.annotations, t.turns_fts>>

\* C30: open() on a file whose schema-version marker is missing or is not
\* SCHEMA_VERSION drops and recreates all data tables and sets the marker;
\* on a file whose marker is SCHEMA_VERSION it leaves tables and rows in
\* place; while the database is open the marker is SCHEMA_VERSION.
C30_SchemaVersion ==
  /\ store.isOpen => MarkerOf(store.file) = String(SCHEMA_VERSION) /\ store.file.tables
  /\ store.op = "open" =>
       IF MarkerOf(store.atOpen) # String(SCHEMA_VERSION)
       THEN DataOf(store.file) = <<{}, {}, {}, EmptyBag>>
       ELSE DataOf(store.file) = DataOf(store.atOpen)

\* A file with rows of an older version was opened and emptied.
C30_Witness ==
  /\ store.op = "open"
  /\ MarkerOf(store.atOpen) = String(SCHEMA_VERSION - 1)
  /\ store.atOpen.turns # {}
  /\ store.file.turns = {}

(***************************************************************************)
(* Annotations of a turn: indexSession reaches a request with its response *)
(* parts and its variables.                                                *)
(***************************************************************************)
Part(kind, field, v) == Obj(("kind" :> Str(kind)) @@ (field :> v))

UriValues ==
  {Undefined, Str(""), Str("/a"), Str("/"), Obj("path" :> Str("/d/b")), Obj("path" :> Str("")),
   Obj("path" :> Num(7)), Obj(NoProps)}

Parts ==
  {Part("markdownContent", "content", Str("text")),
   Part("inlineReference", "inlineReference", Undefined),
   Part("inlineReference", "inlineReference", Obj(("name" :> Str("")) @@ ("uri" :> Str("")))),
   Part("inlineReference", "inlineReference", Obj("name" :> Str("n"))),
   Part("inlineReference", "inlineReference", Obj("uri" :> Arr(<<>>))),
   Part("toolInvocationSerialized", "toolId", Str("")),
   Part("toolInvocationSerialized", "toolId", Arr(<<>>)),
   Part("toolInvocationSerialized", "toolName", Str("t")),
   Obj(("kind" :> Str("toolInvocationSerialized")) @@ ("toolId" :> Str("t"))
         @@ ("invocationMessage" :> Obj("value" :> Str("m")))),
   Part("thinking", "content", Str("")),
   Part("thinking", "content", Str("th")),
   Part("thinking", "content", Obj("value" :> Str(""))),
   Part("thinking", "content", Obj("value" :> Undefined)),
   Part("confirmationWidget", "title", Str("ok"))}
  \cup {Part(k, "uri", u) : k \in {"textEditGroup", "codeblockUri"}, u \in UriValues}

Variables ==
  {Obj(NoProps), Obj("name" :> Str("")), Obj("id" :> Str("i")), Obj("value" :> Str("/a")),
   Obj(("name" :> Str("n")) @@ ("value" :> Num(1))), Obj(("id" :> Num(0)) @@ ("value" :> Obj(NoProps)))}

annotVars == <<indexerVars, replay, search, adhoc, store, batch, tree, quickPick>>

InitAnnotations ==
  /\ IndexerIdle
  /\ disk = [f \in Files |-> NoFile]
  /\ replay = IdleReplay
  /\ search = IdleSearch
  /\ adhoc = IdleQuery
  /\ store = IdleStore
  /\ batch = IdleBatch
  /\ tree = IdleTree
  /\ quickPick = IdleQuickPick
  /\ \E n \in 0..MaxParts : \E ps \in [1..n -> Parts] :
       \E vs \in {<<>>} \cup {<<v>> : v \in Variables} :
         annot = [IdleAnnotations EXCEPT !.pc = "request", !.response = ps, !.variables = vs]

\* indexer.ts line 146: extractResponseParts(req.response || [])
Extract ==
  /\ annot.pc = "request"
  /\ annot' = IF extractResponseParts(annot.response).threw
                THEN [annot EXCEPT !.pc = "done", !.threw = TRUE]
              ELSE [annot EXCEPT !.pc = "extracted",
                                 !.extracted = extractResponseParts(annot.response).annotations]
  /\ UNCHANGED annotVars

\* indexer.ts lines 149-165
FilterAll ==
  /\ annot.pc = "extracted"
  /\ LET attachments == [j \in 1..Len(annot.variables) |-> attachmentOf(annot.variables[j])]
     IN annot' = [annot EXCEPT !.pc = "filtered", !.attachments = attachments,
                               !.all = SelectSeq(annot.extracted \o attachments, keeps)]
  /\ UNCHANGED annotVars

\* indexer.ts lines 182-184 and database.ts lines 386-392, the turn written
AddAnnotations ==
  /\ annot.pc = "filtered"
  /\ annot' = [annot EXCEPT !.pc = "done", !.rows = annot.all]
  /\ UNCHANGED annotVars

NextAnnotations ==
  \/ Extract
  \/ FilterAll
  \/ AddAnnotations

SpecAnnotations == InitAnnotations /\ [][NextAnnotations]_vars

\* A column that holds something: not NULL and not the empty string.
NonEmptyField(v) == v \notin {Undefined, Null, Str("")}

AllEmpty(a) == ~NonEmptyField(a.name) /\ ~NonEmptyField(a.uri) /\ ~NonEmptyField(a.detail)

\* C28: every annotation row written by indexing has a non-empty name, uri or
\* detail: an annotation of a response part or of a request variable with
\* all three empty is not stored, whatever its kind.
C28_NoEmptyAnnotation ==
  \A j \in 1..Len(annot.rows) : ~AllEmpty(annot.rows[j])

\* Rows were written for a request of which a response part and a variable
\* gave an annotation with nothing in it.
C28_Witness ==
  /\ annot.pc = "done" /\ annot.rows # <<>>
  /\ \E j \in 1..Len(annot.response) :
       /\ partAnnotations(annot.response[j]).annotations # <<>>
       /\ AllEmpty(partAnnotations(annot.response[j]).annotations[1])
  /\ \E j \in 1..Len(annot.attachments) : AllEmpty(annot.attachments[j])

(***************************************************************************)
(* SpecRename: reindex() passes one after the other over a log whose       *)
(* session id changes between or during the passes; logs may disappear.    *)
(***************************************************************************)
InitRename ==
  /\ InitIndexer
  /\ \E other \in {NoFile} \cup {FileOf(1, TRUE, sid, 1, 1) : sid \in SessionIds} :
       disk = [f \in Files |-> IF f = "fA" THEN FileOf(1, TRUE, "s1", 1, 1) ELSE other]

\* The log is rewritten under another session id; it is newer.
Reassign(f, sid) ==
  /\ diskEpoch < MaxDiskOps
  /\ disk[f].exists
  /\ disk[f].mtime < MaxMtime
  /\ disk[f].sessionId # sid
  /\ disk' = [disk EXCEPT ![f].sessionId = sid, ![f].mtime = @ + 1, ![f].rev = @ + 1]
  /\ diskEpoch' = diskEpoch + 1
  /\ UNCHANGED <<callVars, lastBarrierCall, inFlightReindex, calls, passes, db, txOpen, txSnap, gate, readers>>

NextRename ==
  \/ \E c \in Calls : SeqReindex(c)
  \/ \E p \in Calls : PassNext(p)
  \/ \E f \in Files, sid \in SessionIds : Reassign(f, sid)
  \/ \E f \in Files : Unlink(f)

SpecRename == InitRename /\ [][NextRename]_vars

\* The rows of sessions that record path p.
RowsOfPath(d, p) == {r \in d.sessions : r.file_path = p}

\* C29: when indexSession commits for the file at path p whose session id is
\* s, no session row with path p and another session id remains: the file is
\* represented by exactly one row, also when its session id has changed.
\* (Passes run one after the other here; that no row of another id remains
\* holds for overlapping passes as well.)
C29_OneRowPerPath ==
  [][\A p \in Calls :
       (passes[p].pc = "commit" /\ txOpen /\ passes'[p].pc # "commit")
         => /\ \A r \in RowsOfPath(db', Entry(passes[p]).filePath) :
                 r.session_id = Entry(passes[p]).sessionId
            /\ Cardinality(RowsOfPath(db', Entry(passes[p]).filePath)) = 1]_vars

\* The write of a file is about to commit: the index held a row of another
\* session id for its path when the transaction began, and holds the one row
\* of the new id now.
C29_Witness ==
  \E p \in Calls :
    /\ passes[p].pc = "commit" /\ txOpen
    /\ \E r \in RowsOfPath(txSnap, Entry(passes[p]).filePath) :
         r.session_id # Entry(passes[p]).sessionId
    /\ RowsOfPath(db, Entry(passes[p]).filePath)
         = {r \in db.sessions : r.session_id = Entry(passes[p]).sessionId}
    /\ Cardinality(RowsOfPath(db, Entry(passes[p]).filePath)) = 1

(***************************************************************************)
(* SpecProgress: reindex(progress) calls one after the other, with no      *)
(* reporter, with one that works, or with one whose report() may throw.    *)
(* The index starts with the row of a log that is gone; fA is to index.    *)
(***************************************************************************)
Reporters == {"none", "works", "fails"}

GoneSession == upsertTurn(upsertSession(EmptyDb, [sessionId |-> "s2", filePath |-> "fB",
                                                   mtime |-> 1, nreq |-> 1]), "s2", 0, 1)

InitProgress ==
  /\ inFlightReindex = 0
  /\ calls = [c \in Calls |-> NoCall]
  /\ passes = [c \in Calls |-> NoPass]
  /\ diskEpoch = 0
  /\ db = GoneSession
  /\ txOpen = FALSE
  /\ txSnap = EmptyDb
  /\ gate = NoGate
  /\ readers = [r \in Readers |-> IdleReader]
  /\ lastBarrierCall = [op |-> "none", before |-> NoGate]
  /\ replay = IdleReplay
  /\ search = IdleSearch
  /\ adhoc = IdleQuery
  /\ store = IdleStore
  /\ annot = IdleAnnotations
  /\ batch = IdleBatch
  /\ tree = IdleTree
  /\ quickPick = IdleQuickPick
  /\ disk = [f \in Files |-> IF f = "fA" THEN FileOf(2, TRUE, "s1", MaxTurns, 1) ELSE NoFile]

\* Lines 24-36: reindex(progress) once every earlier call has settled.  The
\* first report() is made before the first await of doReindex: if it throws,
\* the pass is rejected on the spot and the finally clears the guard.
reindexWith(c, kind) ==
  /\ \A k \in Calls : k < c => calls[k].pc = "done"
  /\ calls[c].kind = "none"
  /\ inFlightReindex = 0
  /\ \E thrown \in {FALSE} \cup {kind = "fails"} :
       IF thrown
       THEN /\ calls' = [calls EXCEPT ![c] = [NoCall EXCEPT !.kind = "reindex", !.pc = "done",
                                                            !.awaits = c, !.outcome = NoOutcome]]
            /\ passes' = [passes EXCEPT ![c] = Finished([StartPass EXCEPT !.progress = kind], FALSE)]
            /\ UNCHANGED inFlightReindex
       ELSE /\ calls' = [calls EXCEPT ![c] = [NoCall EXCEPT !.kind = "reindex", !.pc = "own",
                                                            !.awaits = c]]
            /\ inFlightReindex' = c
            /\ passes' = [passes EXCEPT ![c] = [StartPass EXCEPT !.progress = kind]]
  /\ UNCHANGED <<callVars, lastBarrierCall, disk, diskEpoch, db, txOpen, txSnap, gate, readers>>

\* Lines 66-69 and 98: the report() that opens a batch, or the one that
\* opens the pruning phase, throws; nothing catches it, the pass is rejected.
ReportThrows(p) ==
  /\ passes[p].pc \in {"stat", "yield"}
  /\ passes[p].progress = "fails"
  /\ PassSettle(p, passes[p], db, gate, FALSE)

NextProgress ==
  \/ \E c \in Calls, kind \in Reporters : reindexWith(c, kind)
  \/ \E p \in Calls : PassNext(p)
  \/ \E p \in Calls : ReportThrows(p)

SpecProgress == InitProgress /\ [][NextProgress]_vars

\* What the first pass does to this disk and index without a reporter.
ReferenceOutcome == [ok |-> TRUE, indexed |-> 1, skipped |-> 0, pruned |-> 1]

ReferenceIndex ==
  [tables |-> TRUE,
   sessions |-> {SessionRow("s1", "fA", 2, MaxTurns)},
   turns |-> {TurnRowOf("s1", i, 1) : i \in 0..(MaxTurns - 1)}]

FirstCallSettled == calls[1].pc = "done" /\ \A c \in Calls \ {1} : calls[c].kind = "none"

\* C31: progress reporting does not affect correctness: on the same disk and
\* index, the pass ends with the same outcome and leaves the same index
\* whether it has no reporter, one that works, or one whose report fails.
C31_ProgressAdvisory ==
  FirstCallSettled => calls[1].outcome = ReferenceOutcome /\ db = ReferenceIndex

(***************************************************************************)
(* SpecBatch: one pass with up to MaxStale stale files; a parse resolves   *)
(* or fails, a session write commits or throws.                            *)
(***************************************************************************)
batchVars == <<indexerVars, replay, search, adhoc, store, annot, tree, quickPick>>

InitBatch ==
  /\ IndexerIdle
  /\ disk = [f \in Files |-> NoFile]
  /\ replay = IdleReplay
  /\ search = IdleSearch
  /\ adhoc = IdleQuery
  /\ store = IdleStore
  /\ annot = IdleAnnotations
  /\ tree = IdleTree
  /\ quickPick = IdleQuickPick
  /\ \E n \in 0..MaxStale :
       batch = [IdleBatch EXCEPT !.pc = "stat",
                                 !.toIndex = [k \in 1..n |-> [filePath |-> k, mtime |-> 1]],
                                 !.status = [k \in 1..n |-> "waiting"]]

\* The positions in toIndex of the batch at offset i.
BatchItems(b) == {b.i + k : k \in 1..Len(Batch(b))}

\* Lines 63-81: the loop test; the batch is sliced and every parse of it is
\* started (batch.map), or the loop is left.
EnterBatch(b) ==
  IF b.i < Len(b.toIndex)
  THEN [b EXCEPT !.pc = "parse", !.j = 0,
                 !.status = [k \in DOMAIN b.status |-> IF k \in BatchItems(b) THEN "flight" ELSE b.status[k]]]
  ELSE [b EXCEPT !.pc = "prune"]

\* Line 61: the stats have settled; the loop is entered.
StartBatches ==
  /\ batch.pc = "stat"
  /\ batch' = EnterBatch(batch)
  /\ UNCHANGED batchVars

\* Lines 73-81: one parse settles, with a result or with null; Promise.all
\* resolves when the last one has.
ParseSettles ==
  /\ batch.pc = "parse"
  /\ \E k \in DOMAIN batch.status, res \in {"ok", "null"} :
       /\ batch.status[k] = "flight"
       /\ LET st == [batch.status EXCEPT ![k] = res] IN
          batch' = [batch EXCEPT !.status = st,
                                 !.pc = IF \E m \in DOMAIN st : st[m] = "flight" THEN "parse" ELSE "write",
                                 !.j = IF \E m \in DOMAIN st : st[m] = "flight" THEN 0 ELSE 1]
  /\ UNCHANGED batchVars

\* Lines 83-91: the next entry of parsed: null is passed over, any other is
\* written, and counted unless indexSession threw.
WriteNext ==
  /\ batch.pc = "write"
  /\ batch.j <= Len(Batch(batch))
  /\ LET k == batch.i + batch.j IN
     \E committed \in BOOLEAN :
       batch' = IF batch.status[k] = "null" THEN [batch EXCEPT !.j = @ + 1]
                ELSE [batch EXCEPT !.j = @ + 1,
                                   !.status[k] = IF committed THEN "written" ELSE "failed",
                                   !.indexed = IF committed THEN @ + 1 ELSE @]
  /\ UNCHANGED batchVars

\* Line 94: the loop of the batch is over, the timer is set.
WritesDone ==
  /\ batch.pc = "write"
  /\ batch.j > Len(Batch(batch))
  /\ batch' = [batch EXCEPT !.pc = "yield"]
  /\ UNCHANGED batchVars

\* Lines 63 and 94: the timer has fired; i += BATCH_SIZE.
YieldTimer ==
  /\ batch.pc = "yield"
  /\ batch' = EnterBatch([batch EXCEPT !.i = @ + BATCH_SIZE])
  /\ UNCHANGED batchVars

NextBatch ==
  \/ StartBatches
  \/ ParseSettles
  \/ WriteNext
  \/ WritesDone
  \/ YieldTimer

SpecBatch == InitBatch /\ [][NextBatch]_vars

InFlight == {k \in DOMAIN batch.status : batch.status[k] = "flight"}

\* The items whose session write is still to come or under way.
Unwritten(k) == batch.status[k] \in {"waiting", "flight", "ok"}

\* C32: within a pass at most BATCH_SIZE parses are in flight at any time;
\* no session write of a batch starts before every parse of the batch has
\* settled; the parses of the next batch do not start before the writes of
\* the current batch have finished.
C32_Batches ==
  /\ Cardinality(InFlight) <= BATCH_SIZE
  /\ batch.pc = "write" => InFlight = {}
  /\ \A k \in DOMAIN batch.status :
       batch.status[k] \in {"written", "failed"} =>
         \A m \in DOMAIN batch.status :
           (m - 1) \div BATCH_SIZE = (k - 1) \div BATCH_SIZE => batch.status[m] # "flight"
  /\ \A k \in InFlight :
       \A m \in DOMAIN batch.status :
         (m - 1) \div BATCH_SIZE < (k - 1) \div BATCH_SIZE => ~Unwritten(m)

\* The parses of a second batch are in flight, the first batch of
\* BATCH_SIZE files having been parsed and written.
C32_Witness ==
  /\ batch.pc = "parse"
  /\ batch.i = BATCH_SIZE
  /\ InFlight # {}
  /\ \E k \in 1..BATCH_SIZE : batch.status[k] = "written"

\* C33: after a reindex pass that completed with no parse or write failure,
\* over files that were never rewritten or removed, every discovered file that
\* parses to a session has a session row recording its path and the
\* modification time the pass observed (the one on disk, the file being
\* unchanged), also when two discovered files carry the same sessionId.
C33_EveryFileRepresented ==
  \A p \in Calls :
    (/\ passes[p].pc = "done" /\ passes[p].ok
     /\ diskEpoch = 0
     /\ AllSessions(passes[p].files))
    => \A f \in passes[p].files :
         \E r \in db.sessions : r.file_path = f /\ r.file_mtime = disk[f].mtime

(***************************************************************************)
(* SpecTouch: reindex() passes one after the other over logs that are      *)
(* modified, each time with a later modification time, or removed, at any  *)
(* moment of a pass or between passes.                                     *)
(***************************************************************************)
InitTouch ==
  /\ InitIndexer
  /\ \E other \in {NoFile, FileOf(1, TRUE, "s2", 1, 1)} :
       disk = [f \in Files |-> IF f = "fA" THEN FileOf(1, TRUE, "s1", 1, 1) ELSE other]

\* The log is modified in place; its modification time increases.
Touch(f) ==
  /\ diskEpoch < MaxDiskOps
  /\ disk[f].exists
  /\ disk[f].mtime < MaxMtime
  /\ disk' = [disk EXCEPT ![f].mtime = @ + 1, ![f].rev = @ + 1]
  /\ diskEpoch' = diskEpoch + 1
  /\ UNCHANGED <<callVars, lastBarrierCall, inFlightReindex, calls, passes, db, txOpen, txSnap, gate, readers>>

NextTouch ==
  \/ \E c \in Calls : SeqReindex(c)
  \/ \E p \in Calls : PassNext(p)
  \/ \E f \in Files : Touch(f)
  \/ \E f \in Files : Unlink(f)

SpecTouch == InitTouch /\ [][NextTouch]_vars

\* The session row of the entry being written has been upserted.
SessionWritten(p) == passes[p].pc \in {"deleteTurnsForSession", "upsertTurn", "commit"}

\* C34: the modification time stored for a session is the one read by the
\* stat made before the file was parsed, whatever happened to the file
\* since; and a file whose modification time on disk is later than the
\* stored one is classified as stale by the next pass and re-indexed.
C34_StatMtimeStored ==
  \A p \in Calls :
    /\ SessionWritten(p) =>
         \E r \in db.sessions :
           /\ r.session_id = Entry(passes[p]).sessionId
           /\ r.file_path = Entry(passes[p]).filePath
           /\ r.file_mtime = passes[p].stats[Entry(passes[p]).filePath]
    /\ Classified(p) =>
         \A f \in passes[p].files :
           (passes[p].known[f] # 0 /\ passes[p].known[f] < passes[p].stats[f])
             => f \in ToIndexPaths(passes[p])

\* The one modification of the file fell between the stat and the parse of
\* the first pass, which stored the revised turns under the earlier time;
\* the second pass has found the file stale.
C34_Witness ==
  \E f \in Files :
    /\ diskEpoch = 1
    /\ disk[f].exists /\ disk[f].rev = 2
    /\ passes[1].pc = "done"
    /\ Classified(2)
    /\ passes[2].known[f] # 0
    /\ passes[2].known[f] < passes[2].stats[f]
    /\ f \in ToIndexPaths(passes[2])
    /\ \E t \in db.turns : t.session_id = disk[f].sessionId /\ t.rev = 2

InitWoken ==
  /\ InitIndexer
  /\ disk = [f \in Files |-> FileOf(1, TRUE, IF f = "fA" THEN "s1" ELSE "s2", 1, 1)]

NextWoken ==
  \/ \E c \in Calls : SeqReindex(c)
  \/ \E p \in Calls : PassNext(p)
  \/ \E f \in Files : Unlink(f)
  \/ ReadNext(1)

SpecWoken == InitWoken /\ [][NextWoken]_vars

\* C36: a read operation that was blocked on the barrier does not execute
\* its query while a barrier is active: when beginIndexing() is called again
\* after the endIndexing() that woke it and before it issues its query, it
\* waits for the new barrier as well.
C36_WokenReaderRechecks ==
  \A r \in Readers :
    (/\ readers[r].op \in SingleOps
     /\ readers[r].pc = "done"
     /\ readers[r].wasBlocked)
    => ~readers[r].inBarrier

(***************************************************************************)
(* SpecReannotate: indexSession (src/src/indexer.ts lines 136-187) run on  *)
(* the tables again and again for session s1, each time from a log with    *)
(* any number of requests and of annotations per request, next to a        *)
(* session s2 indexed before.                                              *)
(***************************************************************************)
\* The annotations extracted and retained for a request of run number rev
\* that has k of them.
Extracted(k, rev) ==
  [j \in 1..k |-> [kind |-> "tool", name |-> j, uri |-> "", detail |-> rev]]

\* The logs a run can find.
Logs(rev) ==
  UNION {[1..n -> {Extracted(k, rev) : k \in 0..MaxNotes}] : n \in 0..MaxTurns}

InitReannotate ==
  /\ IndexerIdle
  /\ disk = [f \in Files |-> NoFile]
  /\ replay = IdleReplay
  /\ search = IdleSearch
  /\ adhoc = IdleQuery
  /\ annot = IdleAnnotations
  /\ batch = IdleBatch
  /\ tree = IdleTree
  /\ quickPick = IdleQuickPick
  /\ store = [IdleStore EXCEPT
                !.isOpen = TRUE, !.opens = 1,
                !.file = addAnnotations(insertTurn(insertSession(initialize(NoTables), "s2", "f2", 0),
                                                   "s2", 0, NoColumns),
                                        1, Extracted(1, 0))]

\* The turn loop of line 145 at request i: its test.
TurnLoop(st) ==
  IF st.run.i < Len(st.run.log) THEN [st EXCEPT !.pc = "upsertTurn"]
  ELSE [st EXCEPT !.pc = "idle", !.op = "indexSession"]

\* Lines 126-139: indexSession is called; the session row is upserted.
RunUpsertSession ==
  /\ Ready
  /\ \E log \in Logs(store.ops + 1) :
       store' = [store EXCEPT !.ops = @ + 1, !.op = "upsertSession", !.pc = "deleteTurnsForSession",
                              !.before = store.file,
                              !.run = [sid |-> "s1", log |-> log, i |-> 0, turnId |-> 0],
                              !.file = insertSession(@, "s1", "f1", store.ops + 1)]
  /\ UNCHANGED tableVars

\* Line 142
RunDeleteTurns ==
  /\ store.pc = "deleteTurnsForSession"
  /\ store' = TurnLoop([store EXCEPT !.file =
                          deleteTurnRows(@, {r \in store.file.turns : r.session_id = store.run.sid})])
  /\ UNCHANGED tableVars

\* Lines 167-180: the turn of request i is upserted, its id returned.
RunUpsertTurn ==
  /\ store.pc = "upsertTurn"
  /\ LET f == insertTurn(store.file, store.run.sid, store.run.i,
                         [NoColumns EXCEPT !.rest = store.ops])
     IN store' = [store EXCEPT !.file = f, !.pc = "addAnnotations",
                               !.run.turnId = turnIdOf(f, store.run.sid, store.run.i)]
  /\ UNCHANGED tableVars

\* Lines 182-184 and the loop step: the annotations of request i, if any.
RunAddAnnotations ==
  /\ store.pc = "addAnnotations"
  /\ LET all == store.run.log[store.run.i + 1] IN
     store' = TurnLoop([store EXCEPT
                          !.file = IF Len(all) > 0 THEN addAnnotations(@, store.run.turnId, all) ELSE @,
                          !.run.i = @ + 1])
  /\ UNCHANGED tableVars

NextReannotate ==
  \/ RunUpsertSession
  \/ RunDeleteTurns
  \/ RunUpsertTurn
  \/ RunAddAnnotations

SpecReannotate == InitReannotate /\ [][NextReannotate]_vars

\* What the annotations table holds for turn id, without the row ids.
StoredFor(t, id) ==
  {[kind |-> a.kind, name |-> a.name, uri |-> a.uri, detail |-> a.detail] :
     a \in {x \in t.annotations : x.turn_id = id}}

RowsFor(t, id) == {x \in t.annotations : x.turn_id = id}

Range(seq) == {seq[j] : j \in 1..Len(seq)}

\* C37: re-indexing does not accumulate annotations: after any number of
\* runs of indexSession on a session, the annotations stored for each of
\* its turns are exactly those extracted from the current log, one row
\* each, no annotation row is left that belongs to no turn, and the rows of
\* other sessions are as they were.
C37_NoAnnotationLeftOver ==
  (store.op = "indexSession" /\ store.pc = "idle") =>
    /\ \A i \in 0..(Len(store.run.log) - 1) :
         LET id == turnIdOf(store.file, store.run.sid, i) IN
         /\ id # 0
         /\ StoredFor(store.file, id) = Range(store.run.log[i + 1])
         /\ Cardinality(RowsFor(store.file, id)) = Len(store.run.log[i + 1])
    /\ \A a \in store.file.annotations : \E r \in store.file.turns : r.id = a.turn_id
    /\ \A r \in store.file.turns :
         IF r.session_id = store.run.sid THEN r.turn_index < Len(store.run.log)
         ELSE RowsFor(store.file, r.id) = RowsFor(store.before, r.id)

\* The third run on a session has finished; the run before gave its first
\* turn annotations, and the log now gives it fewer.
C37_Witness ==
  /\ store.op = "indexSession" /\ store.pc = "idle"
  /\ store.ops = 3
  /\ Len(store.run.log) >= 1
  /\ \E r \in store.before.turns :
       /\ r.session_id = store.run.sid /\ r.turn_index = 0
       /\ Cardinality(RowsFor(store.before, r.id)) > Len(store.run.log[1])
  /\ Len(store.run.log[1]) >= 1

(***************************************************************************)
(* SpecRollback: SpecFaults, where storage may reject the ROLLBACK too.    *)
(***************************************************************************)
\* indexSession lines 188-194: ROLLBACK is rejected and the transaction is
\* still there; the error is swallowed, the failure rethrown, the barrier
\* released.  (A ROLLBACK rejected because the transaction was already gone
\* ends like Rollback.)
RollbackFault(p) ==
  /\ passes[p].pc = "rollback"
  /\ txOpen
  /\ LET ps == passes[p]
         r == ContinueBatch([ps EXCEPT !.failed = @ \cup {ps.j}], endIndexing(gate), ps.j + 1)
     IN PassStep(p, r.pass, db, txOpen, txSnap, r.gate, r.wake)

NextRollback ==
  \/ NextFaults
  \/ \E p \in Calls : RollbackFault(p)

SpecRollback == InitFaults /\ [][NextRollback]_vars

\* C38: whenever a reindex() or fullReindex() call has settled and no pass
\* is running, the indexing barrier is inactive and no write transaction is
\* open on the write connection, whichever way the pass was left: after a
\* failed COMMIT, a failed ROLLBACK or a failed prune as well.
C38_CleanWhenSettled ==
  ((\E c \in Calls : calls[c].pc = "done") /\ Quiescent)
    => (gate.indexingBarrier = 0 /\ ~txOpen)

(***************************************************************************)
(* SpecTree: the recent view of the session tree.  refresh(), setSortBy()  *)
(* and setFilter() are called at any moment; the view asks for its root    *)
(* whenever it was told of a change; the database answers each call of a   *)
(* load in any order, with rows or with an error.                          *)
(***************************************************************************)
RECENT_BATCH_SIZE == 3

treeVars == <<indexerVars, replay, search, adhoc, store, annot, batch, quickPick>>

InitTree ==
  /\ IndexerIdle
  /\ disk = [f \in Files |-> NoFile]
  /\ replay = IdleReplay
  /\ search = IdleSearch
  /\ adhoc = IdleQuery
  /\ store = IdleStore
  /\ annot = IdleAnnotations
  /\ batch = IdleBatch
  /\ quickPick = IdleQuickPick
  /\ tree = IdleTree

SortKeys == {"date", "turns"}
FilterTypes == {"all", "workspace"}

\* A load finds a generation other than its own at every check.
NeverSuperseded(t, L) == FALSE

\* part_000 lines 199, 203, 212, 179, 184: this._recentGeneration !== generation
Superseded(t, L) == t.loads[L].generation # t.recentGeneration

\* Lines 50-54, 61-65, 69-73: what refresh, setSortBy and setFilter share.
ResetView(t) ==
  [t EXCEPT !.recentSessions = <<>>, !.recentLoading = FALSE, !.recentLoadingDone = FALSE,
            !.recentGeneration = @ + 1]

\* A load that has settled: at = the call it was awaiting last.
Settled(ld, pc) ==
  [generation |-> ld.generation, pc |-> pc, at |-> ld.pc, n |-> 0, i |-> 0, results |-> <<>>]

\* The sessions of the index that have turns: all but the second listed.
HasTurns(sessionId) == sessionId # 2

\* Lines 178-183: the promise of the load resolved.
LoadResolved(t, L) ==
  IF Superseded(t, L) THEN [t EXCEPT !.loads[L] = Settled(@, "superseded")]
  ELSE [t EXCEPT !.loads[L] = Settled(@, "done"), !.recentLoading = FALSE, !.recentLoadingDone = TRUE]

\* Lines 184-188: the promise of the load rejected.
LoadRejected(t, L) ==
  IF Superseded(t, L) THEN [t EXCEPT !.loads[L] = Settled(@, "superseded")]
  ELSE [t EXCEPT !.loads[L] = Settled(@, "done"), !.recentLoading = FALSE]

\* Lines 202-210: the test of the batch loop at offset i; the turns of the
\* sessions of the batch are asked for.
BatchLoop(t, L) ==
  LET ld == t.loads[L] IN
  IF ld.i >= ld.n THEN LoadResolved(t, L)
  ELSE IF Superseded(t, L) THEN LoadResolved(t, L)
  ELSE [t EXCEPT !.loads[L].pc = "getSessionTurns",
                 !.loads[L].results = [k \in 1..Min(RECENT_BATCH_SIZE, ld.n - ld.i) |-> "pending"]]

\* Lines 213-216: the results that are not null are appended.
RECURSIVE pushResults(_, _, _, _)
pushResults(recent, results, first, generation) ==
  IF results = <<>> THEN recent
  ELSE pushResults(IF HasTurns(first)
                     THEN Append(recent, [sessionId |-> first, generation |-> generation])
                     ELSE recent,
                   Tail(results), first + 1, generation)

refresh ==
  /\ tree.recentGeneration < MaxResets
  /\ tree' = ResetView(tree)
  /\ UNCHANGED treeVars

setSortBy(sort) ==
  /\ tree.recentGeneration < MaxResets
  /\ tree' = [ResetView(tree) EXCEPT !.sortBy = sort]
  /\ UNCHANGED treeVars

setFilter(type) ==
  /\ tree.recentGeneration < MaxResets
  /\ tree' = [ResetView(tree) EXCEPT !.filterType = type]
  /\ UNCHANGED treeVars

\* Lines 162-177 and 196-198: getChildren() of the root in the recent view,
\* when it starts a load.
getRecentRoot ==
  /\ ~tree.recentLoading /\ ~tree.recentLoadingDone
  /\ Len(tree.loads) < MaxLoads
  /\ tree' = [tree EXCEPT
                !.recentLoading = TRUE,
                !.loads = Append(@, [generation |-> tree.recentGeneration, pc |-> "listSessions",
                                     at |-> "", n |-> 0, i |-> 0, results |-> <<>>])]
  /\ UNCHANGED treeVars

\* Lines 198-199: listSessions has answered, with n summaries or an error.
ListReply(L) ==
  /\ L <= Len(tree.loads)
  /\ tree.loads[L].pc = "listSessions"
  /\ \/ tree' = LoadRejected(tree, L)
     \/ \E n \in 0..MaxSummaries :
          LET t == [tree EXCEPT !.loads[L].n = n] IN
          tree' = IF Superseded(t, L) THEN LoadResolved(t, L) ELSE BatchLoop(t, L)
  /\ UNCHANGED treeVars

\* Lines 205-216: getSessionTurns of entry k of the batch has answered, with
\* the turns of the session or with an error (Promise.all then rejects at
\* once).
TurnsReply(L, k) ==
  /\ L <= Len(tree.loads)
  /\ tree.loads[L].pc = "getSessionTurns"
  /\ k \in DOMAIN tree.loads[L].results
  /\ tree.loads[L].results[k] = "pending"
  /\ \/ tree' = LoadRejected(tree, L)
     \/ LET ld == tree.loads[L]
            results == [ld.results EXCEPT ![k] = "answered"]
            t == [tree EXCEPT !.loads[L].results = results]
        IN tree' =
             IF \E m \in DOMAIN results : results[m] = "pending" THEN t
             ELSE IF Superseded(t, L) THEN LoadResolved(t, L)
             ELSE BatchLoop([t EXCEPT
                               !.recentSessions = pushResults(@, results, ld.i + 1, ld.generation),
                               !.loads[L].i = @ + RECENT_BATCH_SIZE], L)
  /\ UNCHANGED treeVars

NextTree ==
  \/ refresh
  \/ \E sort \in SortKeys : setSortBy(sort)
  \/ \E type \in FilterTypes : setFilter(type)
  \/ getRecentRoot
  \/ \E L \in 1..MaxLoads : ListReply(L)
  \/ \E L \in 1..MaxLoads, k \in 1..RECENT_BATCH_SIZE : TurnsReply(L, k)

SpecTree == InitTree /\ [][NextTree]_vars

\* What the view shows of the recent list.
RecentView(t) == <<t.recentSessions, t.recentLoading, t.recentLoadingDone>>

\* C39: a load started before refresh(), setSortBy() or setFilter() never
\* changes the recent view after that call: no step of a superseded load
\* appends to the recent-session list or sets the loading or done flag,
\* and every session in the list was put there by a load of the current
\* generation.
C39_SupersededLoadInert ==
  [][/\ \A L \in 1..Len(tree.loads) :
          (tree.loads[L].generation # tree.recentGeneration /\ tree'.loads[L] # tree.loads[L])
            => RecentView(tree') = RecentView(tree)
     /\ \A j \in 1..Len(tree'.recentSessions) :
          tree'.recentSessions[j].generation = tree'.recentGeneration]_vars

\* A load got the turns of a batch after it was superseded and gave up; the
\* load started after the call has filled the list and is done.
C39_Witness ==
  /\ \E L \in 1..Len(tree.loads) :
       /\ tree.loads[L].pc = "superseded"
       /\ tree.loads[L].generation < tree.recentGeneration
       /\ tree.loads[L].at = "getSessionTurns"
  /\ tree.recentLoadingDone
  /\ tree.recentSessions # <<>>

(***************************************************************************)
(* SpecQuickPick: the search quick pick (src/src/database.ts lines         *)
(* 680-760).  The user changes the value at any moment; the debounce timer *)
(* fires when it is due; db.search answers each call, in the order of the  *)
(* calls, with results or with an error.                                   *)
(***************************************************************************)
InputValues == {<<>>, <<" ">>, <<"a">>, <<"b">>}

pickVars == <<indexerVars, replay, search, adhoc, store, annot, batch, tree>>

InitQuickPick ==
  /\ IndexerIdle
  /\ disk = [f \in Files |-> NoFile]
  /\ replay = IdleReplay
  /\ search = IdleSearch
  /\ adhoc = IdleQuery
  /\ store = IdleStore
  /\ annot = IdleAnnotations
  /\ batch = IdleBatch
  /\ tree = IdleTree
  /\ quickPick = IdleQuickPick

\* Lines 695-702 and 738: the handler of a change of value.
onDidChangeValue(value) ==
  /\ quickPick.changes < MaxChanges
  /\ value # quickPick.value
  /\ quickPick' =
       IF trim(value) = <<>>
       THEN [quickPick EXCEPT !.value = value, !.changes = @ + 1, !.searchTimer = <<>>,
                              !.items = <<>>]
       ELSE [quickPick EXCEPT !.value = value, !.changes = @ + 1, !.searchTimer = value]
  /\ UNCHANGED pickVars

\* Lines 702-705: the timer fires; db.search is called.
TimerFires ==
  /\ quickPick.searchTimer # <<>>
  /\ quickPick' = [quickPick EXCEPT !.searchTimer = <<>>, !.busy = TRUE,
                                    !.searches = Append(@, quickPick.searchTimer)]
  /\ UNCHANGED pickVars

\* Lines 705-737: db.search has answered the earliest call.
SearchReply ==
  /\ quickPick.searches # <<>>
  /\ \E ok \in BOOLEAN :
       quickPick' = [quickPick EXCEPT !.searches = Tail(@), !.busy = FALSE, !.failed = ~ok,
                                      !.items = IF ok THEN Head(quickPick.searches) ELSE @]
  /\ UNCHANGED pickVars

NextQuickPick ==
  \/ \E value \in InputValues : onDidChangeValue(value)
  \/ TimerFires
  \/ SearchReply

SpecQuickPick == InitQuickPick /\ [][NextQuickPick]_vars

\* No timer is pending and every search has answered.
SearchesSettled == quickPick.searchTimer = <<>> /\ quickPick.searches = <<>>

\* C40: once all pending searches have settled the displayed items are the
\* results of the most recently entered value: a search started for an
\* earlier value has not overwritten them, and when the value was cleared
\* to empty the item list is empty.
C40_LatestValueShown ==
  SearchesSettled =>
    IF trim(quickPick.value) = <<>> THEN quickPick.items = <<>>
    ELSE quickPick.failed \/ quickPick.items = quickPick.value

=============================================================================
